---- MODULE Spec2Model ----
(***************************************************************************)
(* A model of try-py's interactive picker: the fuzzy ranking functions of  *)
(* fuzzy.py and the selection controller of selector.py (TrySelector).     *)
(*                                                                         *)
(* Strings are sequences of one-character strings.  Scores are floats in   *)
(* the source; here they are fixed-point integers with Scale units per 1.0 *)
(* and square roots rounded down to a unit.                                *)
(***************************************************************************)
EXTENDS Integers, Sequences, FiniteSets, TLC

None == "None"

(***************************************************************************)
(* Bounds of the model.                                                    *)
(***************************************************************************)
\* longest query buffer the insert handler is allowed to build
MaxBuf == 3
\* longest scripted key list (test_keys) a run starts with
MaxKeys == 6
\* rows of the terminal (UI.height()); max_visible = max(3, height - 8)
TermHeight == 10

(***************************************************************************)
(* Characters.                                                             *)
(***************************************************************************)
Digits == {"0", "1", "2", "4"}
\* LATIN CAPITAL LETTER I WITH DOT ABOVE, the one character whose lower()
\* is two characters long: "i" and COMBINING DOT ABOVE
DottedI == "U+0130"
CombiningDot == "U+0307"
LowerLetters == {"a", "b", "x", "o", "n", "y", "e", "s", "i"}
UpperLetters == {"A", "B", "Y", "E", "S", DottedI}

\* str.lower() on one character: the characters it gives
Lower(c) ==
    CASE c = "A" -> <<"a">>
      [] c = "B" -> <<"b">>
      [] c = "Y" -> <<"y">>
      [] c = "E" -> <<"e">>
      [] c = "S" -> <<"s">>
      [] c = DottedI -> <<"i", CombiningDot>>
      [] OTHER -> <<c>>

\* str.lower() on a string
RECURSIVE LowerStr(_)
LowerStr(s) == IF s = <<>> THEN <<>> ELSE Lower(Head(s)) \o LowerStr(Tail(s))

\* str.isalnum() on one character
IsAlnum(c) == c \in Digits \cup LowerLetters \cup UpperLetters

\* \s of the regular expressions
IsSpace(c) == c \in {" ", "\t"}

\* re.sub(r"\s+", "-", s): every maximal run of whitespace becomes one "-"
RECURSIVE WsToDash(_)
WsToDash(s) ==
    IF s = <<>> THEN <<>>
    ELSE IF IsSpace(Head(s))
         THEN IF Len(s) > 1 /\ IsSpace(s[2])
              THEN WsToDash(Tail(s))
              ELSE <<"-">> \o WsToDash(Tail(s))
         ELSE <<Head(s)>> \o WsToDash(Tail(s))

\* str.startswith
StartsWith(s, p) == Len(s) >= Len(p) /\ SubSeq(s, 1, Len(p)) = p

\* str.strip()
RECURSIVE LStrip(_)
LStrip(s) == IF s # <<>> /\ IsSpace(Head(s)) THEN LStrip(Tail(s)) ELSE s
RECURSIVE RStrip(_)
RStrip(s) ==
    IF s # <<>> /\ IsSpace(s[Len(s)]) THEN RStrip(SubSeq(s, 1, Len(s) - 1)) ELSE s
Strip(s) == RStrip(LStrip(s))

(***************************************************************************)
(* fuzzy.py: calculate_score.                                              *)
(***************************************************************************)
\* fixed-point units per 1.0
Scale == 1000

\* floor of the square root, by bisection on [lo, hi)
RECURSIVE ISqrtIn(_, _, _)
ISqrtIn(n, lo, hi) ==
    IF hi - lo <= 1 THEN lo
    ELSE LET mid == (lo + hi) \div 2
         IN IF mid * mid <= n THEN ISqrtIn(n, mid, hi) ELSE ISqrtIn(n, lo, mid)

\* math.sqrt(k) for a non-negative integer k, in fixed point
SqrtFix(k) == ISqrtIn(k * Scale * Scale, 0, 46340)

\* re.match(r"\d{4}-\d{2}-\d{2}-", text)
HasDatePrefix(text) ==
    /\ Len(text) >= 11
    /\ \A i \in {1, 2, 3, 4, 6, 7, 9, 10} : text[i] \in Digits
    /\ \A i \in {5, 8, 11} : text[i] = "-"

\* 2.0 / math.sqrt(gap + 1)
ProximityBonus(gap) == (2 * Scale * Scale) \div SqrtFix(gap + 1)

\* the recency term falling off with the hours themselves
RecencyBonus_Linear(hours_since) == (3 * Scale) \div (hours_since + 1)
\* 3.0 / math.sqrt(hours_since + 1)
RecencyBonus(hours_since) == (3 * Scale * Scale) \div SqrtFix(hours_since + 1)

\* the while loop of calculate_score; i, last_pos and query_idx are 0-based
\* as in the source, positions collects the matched indices i
RECURSIVE ScoreWalk(_, _, _, _, _, _, _)
ScoreWalk(text_lower, query_chars, i, query_idx, last_pos, score, positions) ==
    IF i >= Len(text_lower) \/ query_idx >= Len(query_chars)
    THEN [query_idx |-> query_idx, last_pos |-> last_pos, score |-> score,
          positions |-> positions]
    ELSE IF text_lower[i + 1] = query_chars[query_idx + 1]
         THEN LET s1 == score + Scale
                  s2 == IF i = 0 \/ ~IsAlnum(text_lower[i]) THEN s1 + Scale ELSE s1
                  s3 == IF last_pos >= 0
                        THEN s2 + ProximityBonus(i - last_pos - 1)
                        ELSE s2
              IN ScoreWalk(text_lower, query_chars, i + 1, query_idx + 1, i, s3,
                           positions \cup {i})
         ELSE ScoreWalk(text_lower, query_chars, i + 1, query_idx, last_pos,
                        score, positions)

\* calculate_score with "return 0.0" of the unmatched case left out
calculate_score_NoReject(text, query_down, mtime) ==
    LET text_lower == LowerStr(text)
        dated == IF HasDatePrefix(text) THEN 2 * Scale ELSE 0
    IN IF query_down # <<>>
       THEN LET w == ScoreWalk(text_lower, query_down, 0, 0, -1, dated, {})
                d == IF w.last_pos >= 0
                     THEN (w.score * Len(query_down)) \div (w.last_pos + 1)
                     ELSE w.score
                l == (d * 10) \div (Len(text) + 10)
            IN l + RecencyBonus(mtime)
       ELSE dated + RecencyBonus(mtime)

\* calculate_score(try_dir, query_down, query_chars, ctime, mtime); text is
\* try_dir["basename"], mtime the whole hours since the last modification
calculate_score(text, query_down, mtime) ==
    LET text_lower == LowerStr(text)
        dated == IF HasDatePrefix(text) THEN 2 * Scale ELSE 0
    IN IF query_down # <<>>
       THEN LET w == ScoreWalk(text_lower, query_down, 0, 0, -1, dated, {})
            IN IF w.query_idx < Len(query_down)
               THEN 0
               ELSE LET d == IF w.last_pos >= 0
                             THEN (w.score * Len(query_down)) \div (w.last_pos + 1)
                             ELSE w.score
                        l == (d * 10) \div (Len(text) + 10)
                    IN l + RecencyBonus(mtime)
       ELSE dated + RecencyBonus(mtime)

\* the for loop of highlight_matches (lines 102-108) from position i on; i
\* and query_index count from 1
RECURSIVE HighlightWalk(_, _, _, _, _)
HighlightWalk(text, text_lower, query_chars, i, query_index) ==
    IF i > Len(text) THEN <<>>
    ELSE IF query_index <= Len(query_chars) /\ text_lower[i] = query_chars[query_index]
    THEN <<"{", "b", "}", text[i], "{", "/", "b", "}">>
         \o HighlightWalk(text, text_lower, query_chars, i + 1, query_index + 1)
    ELSE <<text[i]>> \o HighlightWalk(text, text_lower, query_chars, i + 1, query_index)

\* highlight_matches(text, query) (lines 92-110)
highlight_matches(text, query) ==
    IF query = <<>> THEN text
    ELSE HighlightWalk(text, LowerStr(text), LowerStr(query), 1, 1)

(***************************************************************************)
(* selector.py: _get_tries.                                                *)
(***************************************************************************)
\* a sort that puts a try before the earlier tries of equal score
RECURSIVE SortedByScore_Unstable(_)
SortedByScore_Unstable(s) ==
    IF s = <<>> THEN <<>>
    ELSE LET rest == SortedByScore_Unstable(SubSeq(s, 1, Len(s) - 1))
             x == s[Len(s)]
             keep == {i \in 1..Len(rest) : rest[i].score > x.score}
             k == Cardinality(keep)
         IN SubSeq(rest, 1, k) \o <<x>> \o SubSeq(rest, k + 1, Len(rest))
\* sorted(..., key=lambda t: -t["score"]): stable, non-increasing score
RECURSIVE SortedByScore(_)
SortedByScore(s) ==
    IF s = <<>> THEN <<>>
    ELSE LET rest == SortedByScore(SubSeq(s, 1, Len(s) - 1))
             x == s[Len(s)]
             keep == {i \in 1..Len(rest) : rest[i].score >= x.score}
             k == Cardinality(keep)
         IN SubSeq(rest, 1, k) \o <<x>> \o SubSeq(rest, k + 1, Len(rest))

\* _get_tries() returning the scored list as it was scanned
GetTries_Unsorted(all, buffer) ==
    LET query_down == LowerStr(buffer)
        scored == [i \in 1..Len(all) |->
                     [basename |-> all[i].basename, path |-> all[i].path,
                      mtime |-> all[i].mtime,
                      score |-> calculate_score(all[i].basename, query_down,
                                                all[i].mtime)]]
    IN IF buffer = <<>>
       THEN scored
       ELSE SelectSeq(scored, LAMBDA t : t.score > 0)
\* _get_tries() over the cached scan all and the query buffer
GetTries(all, buffer) ==
    LET query_down == LowerStr(buffer)
        scored == [i \in 1..Len(all) |->
                     [basename |-> all[i].basename, path |-> all[i].path,
                      mtime |-> all[i].mtime,
                      score |-> calculate_score(all[i].basename, query_down,
                                                all[i].mtime)]]
    IN IF buffer = <<>>
       THEN SortedByScore(scored)
       ELSE SortedByScore(SelectSeq(scored, LAMBDA t : t.score > 0))

Max(a, b) == IF a >= b THEN a ELSE b
Min(a, b) == IF a <= b THEN a ELSE b
InSeq(x, s) == \E i \in 1..Len(s) : s[i] = x

(***************************************************************************)
(* ui.py: the double-buffered printer.  The state of class UI is a record  *)
(* [buffer, last_buffer, current_line, size_cached, height,                *)
(* expand_tokens, force_colors] with two fields for the stream it writes   *)
(* to: out is what the last step that used the printer wrote, one element  *)
(* for each io.write, and screen is what a terminal on that stream shows: *)
(* its rows from the top, without the blank rows at the end.               *)
(***************************************************************************)
\* a terminal with nothing on it
BlankScreen == <<>>

\* the class attributes of UI as they are defined (lines 47-53); height is
\* _height, 0 standing for None, and size_cached tells that _height and
\* _width are set
UIDefault ==
    [buffer |-> <<>>, last_buffer |-> <<>>, current_line |-> <<>>,
     size_cached |-> FALSE, height |-> 0, expand_tokens |-> TRUE,
     force_colors |-> FALSE, out |-> <<>>, screen |-> BlankScreen]

\* io.write("\033[H")
Home == [op |-> "home", row |-> 0, text |-> <<>>]
\* io.write(f"\033[{i + 1};1H\033[2K"): go to row i + 1 and clear it
MoveClear(i) == [op |-> "move_clear", row |-> i + 1, text |-> <<>>]
\* io.write(text)
Write(text) == [op |-> "write", row |-> 0, text |-> text]
\* io.write("\033[2J\033[H")
ClearHome == [op |-> "clear_home", row |-> 0, text |-> <<>>]

\* TOKEN_MAP.get(token, token), for the tokens the model prints
TokenMap(token) ==
    IF token = <<"{", "b", "}">> THEN <<"ESC[1;33m">>
    ELSE IF token = <<"{", "r", "e", "s", "e", "t", "}">>
    THEN <<"ESC[0m", "ESC[39m", "ESC[49m">>
    ELSE token

\* reset = TOKEN_MAP["{reset}"] (line 97)
reset == TokenMap(<<"{", "r", "e", "s", "e", "t", "}">>)

\* where the match of \{.*?\} that starts before i ends: the first "}" at or
\* after i on the same line, 0 when there is none
RECURSIVE FindClose(_, _)
FindClose(s, i) ==
    IF i > Len(s) \/ s[i] = "\n" THEN 0
    ELSE IF s[i] = "}" THEN i
    ELSE FindClose(s, i + 1)

\* re.sub(r"\{.*?\}", repl, s) from position i on; repl is TOKEN_MAP's
\* lookup when expand holds and "" otherwise
RECURSIVE SubTokens(_, _, _)
SubTokens(s, i, expand) ==
    IF i > Len(s) THEN <<>>
    ELSE IF s[i] = "{" /\ FindClose(s, i + 1) # 0
    THEN LET j == FindClose(s, i + 1)
         IN (IF expand THEN TokenMap(SubSeq(s, i, j)) ELSE <<>>)
            \o SubTokens(s, j + 1, expand)
    ELSE <<s[i]>> \o SubTokens(s, i + 1, expand)

\* UI.expand_tokens(text) (lines 207-217)
expand_tokens(u, text) == IF ~u.expand_tokens THEN text ELSE SubTokens(text, 1, TRUE)

\* "\n".join(lines)
RECURSIVE Join(_)
Join(lines) ==
    IF lines = <<>> THEN <<>>
    ELSE IF Len(lines) = 1 THEN lines[1]
    ELSE lines[1] \o <<"\n">> \o Join(Tail(lines))

\* UI.print(text) (lines 55-60)
ui_print(u, text) == [u EXCEPT !.current_line = @ \o text]

\* UI.puts(text) (lines 62-67)
ui_puts(u, text) ==
    [u EXCEPT !.buffer = Append(@, u.current_line \o text),
              !.current_line = <<>>]

\* the frame flush works on: the buffer with the open line closed (lines 73-75)
Finalized(u) ==
    IF u.current_line # <<>> THEN Append(u.buffer, u.current_line) ELSE u.buffer

\* cls._buffer[i] if i < len(cls._buffer) else "" (lines 100-101); i from 0
LineAt(frame, i) == IF i < Len(frame) THEN frame[i + 1] ELSE <<>>

\* the test of line 103, taking every line as changed
LineChanged_Always(u, current_line, last_line) == TRUE
\* the test of line 103
LineChanged(u, current_line, last_line) ==
    current_line # last_line \/ u.force_colors

\* the writes of one turn of the for loop (lines 100-112), without the move
RowWrites_NoMove(u, frame, is_tty, i) ==
    LET current_line == LineAt(frame, i)
        last_line == LineAt(u.last_buffer, i)
    IN IF LineChanged(u, current_line, last_line)
       THEN IF current_line # <<>>
            THEN <<Write(expand_tokens(u, current_line))>>
                 \o (IF u.expand_tokens THEN <<Write(reset)>> ELSE <<>>)
                 \o (IF u.force_colors /\ ~is_tty THEN <<Write(<<"\n">>)>> ELSE <<>>)
            ELSE <<>>
       ELSE <<>>
\* the writes of one turn of the for loop (lines 100-112)
RowWrites(u, frame, is_tty, i) ==
    LET current_line == LineAt(frame, i)
        last_line == LineAt(u.last_buffer, i)
    IN IF LineChanged(u, current_line, last_line)
       THEN (IF is_tty THEN <<MoveClear(i)>> ELSE <<>>)
            \o (IF current_line # <<>>
                THEN <<Write(expand_tokens(u, current_line))>>
                     \o (IF u.expand_tokens
                         THEN <<Write(reset)>>
                         ELSE <<>>)
                     \o (IF u.force_colors /\ ~is_tty THEN <<Write(<<"\n">>)>> ELSE <<>>)
                ELSE <<>>)
       ELSE <<>>

\* max_lines without the rows only the previous frame had
MaxLinesOf_NewOnly(u, frame) == Len(frame)
\* max_lines (line 96)
MaxLinesOf(u, frame) == Max(Len(frame), Len(u.last_buffer))

\* the for loop of lines 99-112 from turn i on
RECURSIVE FlushRows(_, _, _, _)
FlushRows(u, frame, is_tty, i) ==
    IF i >= MaxLinesOf(u, frame) THEN <<>>
    ELSE RowWrites(u, frame, is_tty, i) \o FlushRows(u, frame, is_tty, i + 1)

\* the joined frame written as it is
PlainText_KeepsTokens(frame) == Join(frame)
\* plain of lines 81-82: the frame joined, then every \{.*?\} removed
PlainText(frame) == SubTokens(Join(frame), 1, FALSE)

\* UI.flush() (lines 69-117); is_tty is io.isatty()
ui_flush(u, is_tty) ==
    LET frame == Finalized(u)
    IN IF ~is_tty /\ ~u.force_colors
       THEN LET plain == PlainText(frame)
            IN [u EXCEPT !.out = @ \o <<Write(plain)>>
                                 \o (IF plain # <<>> /\ plain[Len(plain)] = "\n"
                                     THEN <<>> ELSE <<Write(<<"\n">>)>>),
                         !.last_buffer = <<>>,
                         !.buffer = <<>>,
                         !.current_line = <<>>]
       ELSE [u EXCEPT !.out = @ \o (IF is_tty THEN <<Home>> ELSE <<>>)
                              \o FlushRows(u, frame, is_tty, 0),
                      !.last_buffer = frame,
                      !.buffer = <<>>,
                      !.current_line = <<>>]

\* UI.cls() leaving the previous frame in place
ui_cls_KeepsLast(u) ==
    [u EXCEPT !.current_line = <<>>, !.buffer = <<>>, !.out = Append(@, ClearHome)]
\* UI.cls() (lines 119-126)
ui_cls(u) ==
    [u EXCEPT !.current_line = <<>>, !.buffer = <<>>, !.last_buffer = <<>>,
              !.out = Append(@, ClearHome)]

\* UI.disable_colors() (lines 197-200)
ui_disable_colors(u) == [u EXCEPT !.expand_tokens = FALSE]

\* UI.force_colors() (lines 202-205)
ui_force_colors(u) == [u EXCEPT !.force_colors = TRUE]

\* UI.width() and UI.height() reading the size at every call
ui_size_Uncached(u, lines) == [u EXCEPT !.size_cached = TRUE, !.height = lines]
\* UI.width() and UI.height() (lines 162-184): the size is read once; lines
\* is what TRY_HEIGHT or shutil.get_terminal_size() gives at the call
ui_size(u, lines) ==
    IF u.size_cached THEN u ELSE [u EXCEPT !.size_cached = TRUE, !.height = lines]

\* UI.refresh_size() (lines 186-190)
ui_refresh_size(u) == [u EXCEPT !.size_cached = FALSE, !.height = 0]

(***************************************************************************)
(* The terminal that reads the stream: rows of cells and a cursor.  Every  *)
(* step that writes to a terminal starts with the home or the clear        *)
(* sequence, so the cursor is followed within a step and is not kept from  *)
(* one step to the next.                                                   *)
(***************************************************************************)
\* a terminal showing rows with the cursor at home
CursorHome(rows) == [rows |-> rows, row |-> 1, col |-> 1]

\* rows without the blank ones at the end
RECURSIVE TrimRows(_)
TrimRows(rows) ==
    IF rows # <<>> /\ rows[Len(rows)] = <<>>
    THEN TrimRows(SubSeq(rows, 1, Len(rows) - 1))
    ELSE rows

\* the content of row r
RowAt(rows, r) == IF r <= Len(rows) THEN rows[r] ELSE <<>>

\* rows with row r holding content
SetRow(rows, r, content) ==
    TrimRows([i \in 1..Max(Len(rows), r) |-> IF i = r THEN content ELSE RowAt(rows, i)])

\* a row with x in cell c
PutCell(cells, c, x) ==
    [i \in 1..Max(Len(cells), c) |->
        IF i = c THEN x ELSE IF i <= Len(cells) THEN cells[i] ELSE " "]

\* text written at the cursor
RECURSIVE ApplyWrite(_, _)
ApplyWrite(s, text) ==
    IF text = <<>> THEN s
    ELSE IF Head(text) = "\n"
    THEN ApplyWrite([s EXCEPT !.row = @ + 1, !.col = 1], Tail(text))
    ELSE ApplyWrite([s EXCEPT !.rows = SetRow(@, s.row, PutCell(RowAt(@, s.row), s.col, Head(text))),
                              !.col = @ + 1],
                    Tail(text))

\* one write of the printer as the terminal takes it
ApplyOp(s, o) ==
    CASE o.op = "home" -> [s EXCEPT !.row = 1, !.col = 1]
      [] o.op = "move_clear" -> [rows |-> SetRow(s.rows, o.row, <<>>), row |-> o.row, col |-> 1]
      [] o.op = "clear_home" -> CursorHome(BlankScreen)
      [] o.op = "write" -> ApplyWrite(s, o.text)

RECURSIVE ApplyOps(_, _)
ApplyOps(s, ops) ==
    IF ops = <<>> THEN s ELSE ApplyOps(ApplyOp(s, Head(ops)), Tail(ops))

\* the rows after the writes of one step
Shown(rows, ops) == ApplyOps(CursorHome(rows), ops).rows

(***************************************************************************)
(* selector.py: the state of TrySelector and of one run().                 *)
(***************************************************************************)
VARIABLES
    stdin_tty,              \* sys.stdin.isatty()
    stderr_tty,             \* sys.stderr.isatty()
    test_keys,              \* number of keys left in the scripted key list
    test_had_keys,
    test_confirm,           \* [set |-> is not None, value |-> the string]
    test_render_once,
    input_buffer,
    input_cursor_pos,
    cursor_pos,
    scroll_offset,
    selected,
    all_tries,              \* [cached |-> is not None, list |-> the scan]
    delete_status,
    delete_mode,
    marked_for_deletion,
    needs_redraw,
    original_term_settings,
    tries,                  \* the ranked list of the current loop iteration
    confirmation,           \* [read, text]: the answer in the delete flow
    resolved,               \* base_real and the target_real of each item
    term,                   \* the attributes of the terminal behind stdin
    raised,                 \* an exception has left run()
    ui,                     \* the state of class UI
    term_lines,             \* the height a size query would read now
    pc

vars == <<stdin_tty, stderr_tty, test_keys, test_had_keys, test_confirm,
          test_render_once, input_buffer, input_cursor_pos, cursor_pos,
          scroll_offset, selected, all_tries, delete_status, delete_mode,
          marked_for_deletion, needs_redraw, original_term_settings, tries,
          confirmation, resolved, term, raised, ui, term_lines, pc>>

config == <<stdin_tty, stderr_tty, test_had_keys, test_confirm, test_render_once>>

\* the printer at the start of a step: nothing written by the step yet
printer == [ui EXCEPT !.out = <<>>]

\* the printer at the end of a step: a terminal on sys.stderr has taken what
\* the step wrote
Emit(u) == IF stderr_tty THEN [u EXCEPT !.screen = Shown(@, u.out)] ELSE u

\* the heights the terminal takes
TermSizes == {TermHeight, TermHeight + 1}


\* base_path, and Path(base_path).resolve() when no link is on the way
BasePath == <<"/", "b">>

\* one TryDir of the scan: path is base_path / entry.name
TryDir(basename, mtime) ==
    [basename |-> basename, path |-> BasePath \o <<"/">> \o basename,
     mtime |-> mtime]

\* what base.iterdir() yields in _load_all_tries, in scan order
ScanResult ==
    << TryDir(<<"a", "b">>, 1),
       TryDir(<<"B", "-", "a">>, 100),
       TryDir(<<"2", "0", "2", "4", "-", "0", "1", "-", "0", "1", "-", "b">>, 50) >>

\* the base directories met: three tries, or none yet
Scans == {ScanResult, <<>>}

\* _load_all_tries() scanning the directory at every call
LoadAllTries_Rescan(cache, scan) == [cached |-> TRUE, list |-> scan]
\* _load_all_tries() (lines 150-184): the scan is done once and cached
LoadAllTries(cache, scan) == IF cache.cached THEN cache ELSE [cached |-> TRUE, list |-> scan]

NoSelection == [type |-> "none", path |-> <<>>, paths |-> <<>>, base_path |-> <<>>]
NotResolved == [done |-> FALSE, base |-> <<>>, targets |-> <<>>]
NotAsked == [read |-> FALSE, text |-> <<>>]
YES == <<"Y", "E", "S">>

\* the characters the model types into the query
InputChars == {"a", "-"}
\* keys no case of the match statement takes
OtherKeys == {"\n", "\t", "ESC[Z", "~"}
\* query seeds given to the constructor (search_term, initial_input)
Seeds == {<<>>, <<"a">>, <<"a", " ", " ", "B">>}
\* confirmation strings typed or injected in the delete flow
ConfirmStrings == {<<>>, YES, <<"y", "e", "s">>, <<"n", "o">>, <<"Y", "E", "S", " ">>}
\* lines input() returns in the delete flow
InputLines == {<<>>, YES, <<" ", "Y", "E", "S", " ">>, <<"y", "e", "s">>, <<"n", "o">>}
\* terminal attributes before run(), when stdin is a terminal
TermSettings == {"cooked", "noecho"}

\* __post_init__ (lines 88-94) and the dataclass defaults
Init ==
    /\ stdin_tty \in BOOLEAN
    /\ stderr_tty \in BOOLEAN
    /\ test_keys \in 0..MaxKeys
    /\ test_had_keys = (test_keys > 0)
    /\ test_confirm \in {[set |-> FALSE, value |-> <<>>], [set |-> TRUE, value |-> YES]}
    /\ test_render_once \in (IF test_keys = 0 THEN BOOLEAN ELSE {FALSE})
    /\ \E search_term \in Seeds, initial_input \in Seeds :
          input_buffer = IF initial_input # <<>>
                         THEN WsToDash(initial_input)
                         ELSE WsToDash(search_term)
    /\ input_cursor_pos = Len(input_buffer)
    /\ cursor_pos = 0
    /\ scroll_offset = 0
    /\ selected = NoSelection
    /\ all_tries = [cached |-> FALSE, list |-> <<>>]
    /\ delete_status = None
    /\ delete_mode = FALSE
    /\ marked_for_deletion = <<>>
    /\ needs_redraw = FALSE
    /\ original_term_settings = None
    /\ tries = <<>>
    /\ confirmation = NotAsked
    /\ resolved = NotResolved
    /\ term \in (IF stdin_tty THEN TermSettings ELSE {None})
    /\ raised = FALSE
    /\ ui = UIDefault
    /\ term_lines = TermHeight
    /\ pc = "start"

\* the terminal attributes once run() has left its try blocks (lines
\* 119-125): the inner finally restores old_settings when raw mode was entered
TermAfterRun_NoFinally(cur, old_settings, exc) ==
    IF old_settings # None /\ ~exc THEN old_settings ELSE cur
TermAfterRun(cur, old_settings, exc) ==
    IF old_settings # None THEN old_settings ELSE cur

\* max_visible of _render
MaxVisible(term_height) == Max(3, term_height - 8)

\* "Adjust scroll" without the branch that scrolls up
AdjustScroll_DownOnly(cp, so, term_height) ==
    IF cp >= so + MaxVisible(term_height) THEN cp - MaxVisible(term_height) + 1
    ELSE so
\* "Adjust scroll" of _render (lines 391-395)
AdjustScroll(cp, so, term_height) ==
    IF cp < so THEN cp
    ELSE IF cp >= so + MaxVisible(term_height) THEN cp - MaxVisible(term_height) + 1
    ELSE so

\* "Ensure cursor in bounds" of _main_loop (line 216)
ClampCursor_NoFloor(cp, total_items) == Min(cp, total_items - 1)
ClampCursor(cp, total_items) == Max(0, Min(cp, Max(0, total_items - 1)))

TotalItems(tr, buffer) == Len(tr) + (IF buffer # <<>> THEN 1 ELSE 0)

\* test_no_cls as cli.py passes it to the constructor
TestNoCls == test_render_once \/ test_had_keys

\* UI.cls() of _setup_terminal (lines 131-133)
SetupTerminal(u) == IF TestNoCls THEN u ELSE ui_cls(u)

\* UI.cls() of _restore_terminal (lines 143-145)
RestoreTerminal(u) == IF TestNoCls THEN u ELSE ui_cls(u)

\* the UI calls of _render (lines 366-520): the size is read, the frame is
\* composed and flushed.  One line of text stands for the lines of the frame.
Render(u) == ui_flush(ui_puts(ui_size(u, term_lines), <<"x">>), stderr_tty)

\* the UI calls of the delete prompt (lines 565-576), one line standing for
\* its lines
Prompt(u) == ui_flush(ui_puts(ui_cls(u), <<"Y">>), stderr_tty)

\* run() up to the main loop (lines 98-121)
RunStart ==
    /\ pc = "start"
    /\ IF test_render_once /\ test_keys = 0
       THEN /\ \E scan \in Scans : all_tries' = LoadAllTries(all_tries, scan)
            /\ tries' = GetTries(all_tries'.list, input_buffer)
            /\ scroll_offset' = AdjustScroll(cursor_pos, scroll_offset,
                                              Render(SetupTerminal(printer)).height)
            /\ ui' = Emit(RestoreTerminal(Render(SetupTerminal(printer))))
            /\ pc' = "done"
            /\ UNCHANGED <<original_term_settings, term>>
       ELSE IF ~stdin_tty \/ ~stderr_tty
       THEN /\ IF test_keys = 0
               THEN /\ ui' = Emit(RestoreTerminal(
                                     ui_puts(SetupTerminal(printer),
                                             <<"E", "r", "r", "o", "r">>)))
                    /\ pc' = "done"
               ELSE /\ ui' = Emit(SetupTerminal(printer))
                    /\ pc' = "loop"
            /\ UNCHANGED <<all_tries, tries, scroll_offset, original_term_settings, term>>
       ELSE /\ original_term_settings' = term
            /\ term' = "raw"
            /\ ui' = Emit(SetupTerminal(printer))
            /\ pc' = "loop"
            /\ UNCHANGED <<all_tries, tries, scroll_offset>>
    /\ UNCHANGED <<config, term_lines, test_keys, input_buffer, input_cursor_pos, cursor_pos,
                   selected, delete_status, delete_mode, marked_for_deletion,
                   needs_redraw, confirmation, resolved, raised>>

\* the head of one iteration of _main_loop (lines 211-218): rank, clamp, render
LoopTop ==
    /\ pc = "loop"
    /\ \E scan \in Scans : all_tries' = LoadAllTries(all_tries, scan)
    /\ tries' = GetTries(all_tries'.list, input_buffer)
    /\ cursor_pos' = ClampCursor(cursor_pos, TotalItems(tries', input_buffer))
    /\ ui' = Emit(Render(printer))
    /\ scroll_offset' = AdjustScroll(cursor_pos', scroll_offset, ui'.height)
    /\ delete_status' = None
    /\ confirmation' = NotAsked
    /\ resolved' = NotResolved
    /\ pc' = "read"
    /\ UNCHANGED <<config, term_lines, test_keys, input_buffer, input_cursor_pos, selected,
                   delete_mode, marked_for_deletion, needs_redraw,
                   original_term_settings, term, raised>>

\* handle_winch repainting from the handler
Winch_Repaints ==
    /\ pc \in {"loop", "read", "select", "input"}
    /\ ~needs_redraw
    /\ needs_redraw' = TRUE
    /\ ui' = Emit(ui_cls(ui_refresh_size(printer)))
    /\ UNCHANGED <<config, term_lines, test_keys, input_buffer, input_cursor_pos, cursor_pos,
                   scroll_offset, selected, all_tries, delete_status, delete_mode,
                   marked_for_deletion, original_term_settings, tries, confirmation, resolved,
                   term, raised, pc>>

\* handle_winch (lines 136-137), installed from _setup_terminal to
\* _restore_terminal, run for a signal that leaves the height as it is
Winch ==
    /\ pc \in {"loop", "read", "select", "input"}
    /\ ~needs_redraw
    /\ needs_redraw' = TRUE
    /\ UNCHANGED <<config, term_lines, test_keys, input_buffer, input_cursor_pos, cursor_pos,
                   scroll_offset, selected, all_tries, delete_status, delete_mode,
                   marked_for_deletion, original_term_settings, tries, confirmation, resolved,
                   term, raised, ui, pc>>

\* the terminal takes another height and handle_winch (lines 136-137) runs
Resize ==
    /\ pc \in {"loop", "read", "select", "input"}
    /\ ~needs_redraw
    /\ needs_redraw' = TRUE
    /\ \E lines \in TermSizes \ {term_lines} : term_lines' = lines
    /\ UNCHANGED <<config, test_keys, input_buffer, input_cursor_pos, cursor_pos,
                   scroll_offset, selected, all_tries, delete_status, delete_mode,
                   marked_for_deletion, original_term_settings, tries, confirmation, resolved,
                   term, raised, ui, pc>>

\* the resize served without UI.cls()
ReadCheckRedraw_NoCls ==
    /\ pc = "read"
    /\ test_keys = 0 /\ ~test_had_keys
    /\ IF needs_redraw
       THEN /\ needs_redraw' = FALSE
            /\ ui' = Emit(ui_refresh_size(printer))
            /\ pc' = "loop"
            /\ tries' = <<>>
       ELSE /\ pc' = "select"
            /\ UNCHANGED <<needs_redraw, tries, ui>>
    /\ UNCHANGED <<config, term_lines, test_keys, input_buffer, input_cursor_pos, cursor_pos,
                   scroll_offset, selected, all_tries, delete_status, delete_mode,
                   marked_for_deletion, original_term_settings, confirmation, resolved, term,
                   raised>>

\* _read_key without scripted keys (lines 332-337): a pending resize is
\* served before the terminal is polled
ReadCheckRedraw ==
    /\ pc = "read"
    /\ test_keys = 0 /\ ~test_had_keys
    /\ IF needs_redraw
       THEN /\ needs_redraw' = FALSE
            /\ ui' = Emit(ui_cls(ui_refresh_size(printer)))
            /\ pc' = "loop"
            /\ tries' = <<>>
       ELSE /\ pc' = "select"
            /\ UNCHANGED <<needs_redraw, tries, ui>>
    /\ UNCHANGED <<config, term_lines, test_keys, input_buffer, input_cursor_pos, cursor_pos,
                   scroll_offset, selected, all_tries, delete_status, delete_mode,
                   marked_for_deletion, original_term_settings, confirmation, resolved, term,
                   raised>>

\* select() times out, or os.read() returns no data (lines 340-345)
SelectTimeout ==
    /\ pc = "select"
    /\ pc' = "read"
    /\ UNCHANGED <<config, term_lines, test_keys, input_buffer, input_cursor_pos, cursor_pos,
                   scroll_offset, selected, all_tries, delete_status, delete_mode,
                   marked_for_deletion, needs_redraw, original_term_settings,
                   tries, confirmation, resolved, term, raised, ui>>

\* _read_key returns key k (lines 326-330, 339-362): the next scripted key,
\* the synthetic ESC once the script is used up, or a key of the terminal.
\* The content of the scripted list is drawn when a key is popped.
ReadKey(k) ==
    \/ pc = "read" /\ test_keys > 0
    \/ pc = "read" /\ test_keys = 0 /\ test_had_keys /\ k = "ESC"
    \/ pc = "select"

\* the scripted keys left once _read_key has returned (test_keys.pop(0))
KeysAfterRead == IF pc = "read" /\ test_keys > 0 THEN test_keys - 1 ELSE test_keys

\* the iteration ends without an outcome: back to the head of the loop
Continue == pc' = "loop" /\ tries' = <<>>

\* the loop is left (break), run() restores the terminal and returns
ExitLoop ==
    /\ pc' = "done"
    /\ tries' = <<>>
    /\ term' = TermAfterRun(term, original_term_settings, FALSE)
    /\ ui' = Emit(RestoreTerminal(printer))

\* what no key handler writes
untouched == <<config, term_lines, scroll_offset, needs_redraw, original_term_settings>>

\* Keys are named by their usual notation: "^P" is "\x10", "ESC" is "\033",
\* "DEL" is "\x7f", "\r" is Enter.

\* case "\033[A" | "\x10" (lines 239-240)
KeyUp ==
    /\ \E k \in {"ESC[A", "^P"} : ReadKey(k)
    /\ test_keys' = KeysAfterRead
    /\ cursor_pos' = Max(0, cursor_pos - 1)
    /\ Continue
    /\ UNCHANGED <<untouched, ui, input_buffer, input_cursor_pos, selected, all_tries,
                   delete_status, delete_mode, marked_for_deletion, confirmation, resolved,
                   term, raised>>

\* case "ESC[B" | "^N" (lines 242-243)
KeyDown ==
    /\ \E k \in {"ESC[B", "^N"} : ReadKey(k)
    /\ test_keys' = KeysAfterRead
    /\ cursor_pos' = Min(TotalItems(tries, input_buffer) - 1, cursor_pos + 1)
    /\ Continue
    /\ UNCHANGED <<untouched, ui, input_buffer, input_cursor_pos, selected, all_tries,
                   delete_status, delete_mode, marked_for_deletion, confirmation, resolved,
                   term, raised>>

\* case "ESC[C" | "ESC[D" (lines 245-246)
KeyLeftRight ==
    /\ \E k \in {"ESC[C", "ESC[D"} : ReadKey(k)
    /\ test_keys' = KeysAfterRead
    /\ Continue
    /\ UNCHANGED <<untouched, ui, input_buffer, input_cursor_pos, cursor_pos, selected,
                   all_tries, delete_status, delete_mode, marked_for_deletion,
                   confirmation, resolved, term, raised>>

\* buffer[:pos - 1] + buffer[pos:]
DeleteBefore(buffer, pos) ==
    SubSeq(buffer, 1, pos - 1) \o SubSeq(buffer, pos + 1, Len(buffer))

\* case "DEL" | "\b" (lines 248-255).  "\b" is "^H", so Ctrl-H is taken
\* here and the later case "^H" (lines 269-276) is never reached.
KeyBackspace ==
    /\ \E k \in {"DEL", "^H"} : ReadKey(k)
    /\ test_keys' = KeysAfterRead
    /\ IF input_cursor_pos > 0
       THEN /\ input_buffer' = DeleteBefore(input_buffer, input_cursor_pos)
            /\ input_cursor_pos' = input_cursor_pos - 1
       ELSE UNCHANGED <<input_buffer, input_cursor_pos>>
    /\ cursor_pos' = 0
    /\ Continue
    /\ UNCHANGED <<untouched, ui, selected, all_tries, delete_status, delete_mode,
                   marked_for_deletion, confirmation, resolved, term, raised>>

\* case "^A" going back to browsing
KeyCtrlA_ToBrowsing ==
    /\ ReadKey("^A")
    /\ test_keys' = KeysAfterRead
    /\ input_cursor_pos' = 0
    /\ delete_mode' = FALSE
    /\ Continue
    /\ UNCHANGED <<untouched, ui, input_buffer, cursor_pos, selected, all_tries,
                   delete_status, marked_for_deletion, confirmation, resolved,
                   term, raised>>

\* case "^A" (lines 257-258)
KeyCtrlA ==
    /\ ReadKey("^A")
    /\ test_keys' = KeysAfterRead
    /\ input_cursor_pos' = 0
    /\ Continue
    /\ UNCHANGED <<untouched, ui, input_buffer, cursor_pos, selected, all_tries,
                   delete_status, delete_mode, marked_for_deletion, confirmation, resolved,
                   term, raised>>

\* case "^E" (lines 260-261)
KeyCtrlE ==
    /\ ReadKey("^E")
    /\ test_keys' = KeysAfterRead
    /\ input_cursor_pos' = Len(input_buffer)
    /\ Continue
    /\ UNCHANGED <<untouched, ui, input_buffer, cursor_pos, selected, all_tries,
                   delete_status, delete_mode, marked_for_deletion, confirmation, resolved,
                   term, raised>>

\* case "^B" (lines 263-264)
KeyCtrlB ==
    /\ ReadKey("^B")
    /\ test_keys' = KeysAfterRead
    /\ input_cursor_pos' = Max(0, input_cursor_pos - 1)
    /\ Continue
    /\ UNCHANGED <<untouched, ui, input_buffer, cursor_pos, selected, all_tries,
                   delete_status, delete_mode, marked_for_deletion, confirmation, resolved,
                   term, raised>>

\* the new input_cursor_pos of Ctrl-F
CursorRight_NoMin(buffer, pos) == pos + 1
CursorRight(buffer, pos) == Min(Len(buffer), pos + 1)

\* case "^F" (lines 266-267)
KeyCtrlF ==
    /\ ReadKey("^F")
    /\ test_keys' = KeysAfterRead
    /\ input_cursor_pos' = CursorRight(input_buffer, input_cursor_pos)
    /\ Continue
    /\ UNCHANGED <<untouched, ui, input_buffer, cursor_pos, selected, all_tries,
                   delete_status, delete_mode, marked_for_deletion, confirmation, resolved,
                   term, raised>>

\* case "^K" (lines 278-279)
KeyCtrlK ==
    /\ ReadKey("^K")
    /\ test_keys' = KeysAfterRead
    /\ input_buffer' = SubSeq(input_buffer, 1, input_cursor_pos)
    /\ Continue
    /\ UNCHANGED <<untouched, ui, input_cursor_pos, cursor_pos, selected, all_tries,
                   delete_status, delete_mode, marked_for_deletion, confirmation, resolved,
                   term, raised>>

\* one of the two while loops of Ctrl-W (lines 285-289); pos is 0-based
RECURSIVE SkipBack(_, _, _)
SkipBack(buffer, pos, alnum) ==
    IF pos >= 0 /\ IsAlnum(buffer[pos + 1]) = alnum
    THEN SkipBack(buffer, pos - 1, alnum)
    ELSE pos

\* new_pos of Ctrl-W (lines 283-290)
WordStart(buffer, pos) == SkipBack(buffer, SkipBack(buffer, pos - 1, FALSE), TRUE) + 1

\* case "^W" (lines 281-294)
KeyCtrlW ==
    /\ ReadKey("^W")
    /\ test_keys' = KeysAfterRead
    /\ IF input_cursor_pos > 0
       THEN LET new_pos == WordStart(input_buffer, input_cursor_pos)
            IN /\ input_buffer' = SubSeq(input_buffer, 1, new_pos)
                                  \o SubSeq(input_buffer, input_cursor_pos + 1,
                                            Len(input_buffer))
               /\ input_cursor_pos' = new_pos
       ELSE UNCHANGED <<input_buffer, input_cursor_pos>>
    /\ Continue
    /\ UNCHANGED <<untouched, ui, cursor_pos, selected, all_tries, delete_status,
                   delete_mode, marked_for_deletion, confirmation, resolved, term, raised>>

\* the toggle with an assignment in place of the append
ToggleMarked_Replace(marked, path) ==
    IF InSeq(path, marked)
    THEN LET i == CHOOSE j \in 1..Len(marked) :
                      marked[j] = path /\ \A h \in 1..(j - 1) : marked[h] # path
         IN SubSeq(marked, 1, i - 1) \o SubSeq(marked, i + 1, Len(marked))
    ELSE <<path>>
\* list.remove(path) / list.append(path) of the toggle (lines 299-302)
ToggleMarked(marked, path) ==
    IF InSeq(path, marked)
    THEN LET i == CHOOSE j \in 1..Len(marked) :
                      marked[j] = path /\ \A h \in 1..(j - 1) : marked[h] # path
         IN SubSeq(marked, 1, i - 1) \o SubSeq(marked, i + 1, Len(marked))
    ELSE Append(marked, path)

\* delete_mode after the toggle (lines 303-305), without the reset
ToggleDeleteMode_NoReset(mode, marked, path) ==
    IF InSeq(path, marked) THEN mode ELSE TRUE
\* delete_mode after the toggle (lines 303-305)
ToggleDeleteMode(mode, marked, path) ==
    IF ToggleMarked(marked, path) = <<>> THEN FALSE
    ELSE IF InSeq(path, marked) THEN mode ELSE TRUE

\* case "^D" (lines 296-305)
KeyCtrlD ==
    /\ ReadKey("^D")
    /\ test_keys' = KeysAfterRead
    /\ IF cursor_pos < Len(tries)
       THEN LET path == tries[cursor_pos + 1].path
            IN /\ marked_for_deletion' = ToggleMarked(marked_for_deletion, path)
               /\ delete_mode' = ToggleDeleteMode(delete_mode, marked_for_deletion, path)
       ELSE UNCHANGED <<marked_for_deletion, delete_mode>>
    /\ Continue
    /\ UNCHANGED <<untouched, ui, input_buffer, input_cursor_pos, cursor_pos, selected,
                   all_tries, delete_status, confirmation, resolved, term, raised>>

\* case "^C" | "ESC" leaving the loop even in delete mode
KeyCancel_AlwaysExit ==
    /\ \E k \in {"^C", "ESC"} : ReadKey(k)
    /\ test_keys' = KeysAfterRead
    /\ IF delete_mode
       THEN /\ marked_for_deletion' = <<>>
            /\ delete_mode' = FALSE
            /\ selected' = NoSelection
            /\ ExitLoop
       ELSE /\ selected' = NoSelection
            /\ ExitLoop
            /\ UNCHANGED <<marked_for_deletion, delete_mode>>
    /\ UNCHANGED <<untouched, input_buffer, input_cursor_pos, cursor_pos, all_tries,
                   delete_status, confirmation, resolved, raised>>

\* case "^C" | "ESC" (lines 307-313)
KeyCancel ==
    /\ \E k \in {"^C", "ESC"} : ReadKey(k)
    /\ test_keys' = KeysAfterRead
    /\ IF delete_mode
       THEN /\ marked_for_deletion' = <<>>
            /\ delete_mode' = FALSE
            /\ Continue
            /\ UNCHANGED <<selected, term, ui>>
       ELSE /\ selected' = NoSelection
            /\ ExitLoop
            /\ UNCHANGED <<marked_for_deletion, delete_mode>>
    /\ UNCHANGED <<untouched, input_buffer, input_cursor_pos, cursor_pos, all_tries,
                   delete_status, confirmation, resolved, raised>>

\* re.match(r"[a-zA-Z0-9\-_. ]", char)
Printable(char) == IsAlnum(char) \/ char \in {"-", "_", ".", " "}

\* case char if len(char) == 1 and re.match(...) (lines 315-322)
KeyChar ==
    /\ \E char \in InputChars :
          /\ ReadKey(char)
          /\ Printable(char)
          /\ Len(input_buffer) < MaxBuf
          /\ input_buffer' = SubSeq(input_buffer, 1, input_cursor_pos) \o <<char>>
                             \o SubSeq(input_buffer, input_cursor_pos + 1,
                                       Len(input_buffer))
    /\ test_keys' = KeysAfterRead
    /\ input_cursor_pos' = input_cursor_pos + 1
    /\ cursor_pos' = 0
    /\ Continue
    /\ UNCHANGED <<untouched, ui, selected, all_tries, delete_status, delete_mode,
                   marked_for_deletion, confirmation, resolved, term, raised>>

\* a key that no case takes raising an error
KeyOther_Raises ==
    /\ \E k \in OtherKeys : ReadKey(k) /\ ~Printable(k)
    /\ test_keys' = KeysAfterRead
    /\ raised' = TRUE
    /\ Continue
    /\ UNCHANGED <<untouched, ui, input_buffer, input_cursor_pos, cursor_pos, selected,
                   all_tries, delete_status, delete_mode, marked_for_deletion,
                   confirmation, resolved, term>>

\* a key that no case takes: the match statement falls through
KeyOther ==
    /\ \E k \in OtherKeys : ReadKey(k) /\ ~Printable(k)
    /\ test_keys' = KeysAfterRead
    /\ Continue
    /\ UNCHANGED <<untouched, ui, input_buffer, input_cursor_pos, cursor_pos, selected,
                   all_tries, delete_status, delete_mode, marked_for_deletion,
                   confirmation, resolved, term, raised>>

(***************************************************************************)
(* selector.py: Enter, and _confirm_batch_delete.                          *)
(***************************************************************************)
\* marked_items of _confirm_batch_delete (line 561)
MarkedItems(tr, marked) == SelectSeq(tr, LAMBDA t : InSeq(t.path, marked))

\* what Path(item["path"]).resolve() can give at confirmation time: the path
\* itself, or where a link planted at that path leads (the base itself, a
\* sibling directory whose name extends the base's, another tree)
Resolutions(item) ==
    {item.path, BasePath, BasePath \o <<"x">>, <<"/", "o">>}

\* the containment test of line 610, without the "/" after the base
InsideBase_NoSlash(target_real, base_real) == StartsWith(target_real, base_real)
\* the containment test of line 610
InsideBase(target_real, base_real) == StartsWith(target_real, base_real \o <<"/">>)

\* confirmation == "YES" (line 603), compared without regard to case
IsYes_AnyCase(text) == LowerStr(text) = LowerStr(YES)
\* confirmation == "YES" (line 603)
IsYes(text) == text = YES

\* how many items the for loop of lines 608-614 resolves: it stops at the
\* first one that fails the test
Checked(targets, base_real) ==
    LET bad == {i \in 1..Len(targets) : ~InsideBase(targets[i], base_real)}
    IN IF bad = {} THEN Len(targets)
       ELSE CHOOSE i \in bad : \A j \in bad : i <= j

\* the except clause ending the batch as the else of lines 626-629 does
RejectBatch_Clears(cur_term, u) ==
    /\ delete_status' = "Error"
    /\ marked_for_deletion' = <<>>
    /\ delete_mode' = FALSE
    /\ Continue
    /\ term' = cur_term
    /\ ui' = Emit(u)
    /\ UNCHANGED <<selected, all_tries>>
\* except Exception (lines 624-625): only the status line is set, and the
\* caller goes on to its continue (line 229)
RejectBatch(cur_term, u) ==
    /\ delete_status' = "Error"
    /\ Continue
    /\ term' = cur_term
    /\ ui' = Emit(u)
    /\ UNCHANGED <<selected, all_tries, marked_for_deletion, delete_mode>>

\* lines 603-629 of _confirm_batch_delete, then "if self.selected: break" of
\* the caller; cur_term is the terminal mode and u the state of UI at
\* that point
CheckAndDelete(text, cur_term, u) ==
    /\ confirmation' = [read |-> TRUE, text |-> text]
    /\ LET marked_items == MarkedItems(tries, marked_for_deletion)
           n == Len(marked_items)
       IN IF IsYes(text)
          THEN \E targets \in [1..n -> UNION {Resolutions(marked_items[i]) : i \in 1..n}] :
                  /\ \A i \in 1..n : targets[i] \in Resolutions(marked_items[i])
                  /\ resolved' = [done |-> TRUE, base |-> BasePath,
                                  targets |-> SubSeq(targets, 1, Checked(targets, BasePath))]
                  /\ IF \A i \in 1..n : InsideBase(targets[i], BasePath)
                     THEN /\ selected' =
                               [type |-> "delete", path |-> <<>>,
                                paths |-> [i \in 1..n |->
                                             [path |-> targets[i],
                                              basename |-> marked_items[i].basename]],
                                base_path |-> BasePath]
                          /\ delete_status' = "Deleted"
                          /\ all_tries' = [cached |-> FALSE, list |-> <<>>]
                          /\ marked_for_deletion' = <<>>
                          /\ delete_mode' = FALSE
                          /\ pc' = "done"
                          /\ tries' = <<>>
                          /\ term' = TermAfterRun(cur_term, original_term_settings, FALSE)
                          /\ ui' = Emit(RestoreTerminal(u))
                     ELSE RejectBatch(cur_term, u)
          ELSE /\ delete_status' = "Delete cancelled"
               /\ marked_for_deletion' = <<>>
               /\ delete_mode' = FALSE
               /\ Continue
               /\ term' = cur_term
               /\ ui' = Emit(u)
               /\ UNCHANGED <<selected, all_tries, resolved>>

\* _confirm_batch_delete(tries) up to the confirmation (lines 559-601); left
\* is the number of scripted keys at the call
ConfirmBatchDelete(left) ==
    IF MarkedItems(tries, marked_for_deletion) = <<>>
    THEN /\ Continue
         /\ test_keys' = left
         /\ UNCHANGED <<selected, all_tries, delete_status, delete_mode,
                        marked_for_deletion, confirmation, resolved, term, ui>>
    ELSE IF left > 0
    THEN \* the scripted keys up to the first "\r" or "\n" are the answer
         \E text \in ConfirmStrings, terminated \in BOOLEAN :
            /\ IF terminated
               THEN Len(text) + 1 <= left
               ELSE Len(text) = left
            /\ test_keys' = left - Len(text) - (IF terminated THEN 1 ELSE 0)
            /\ CheckAndDelete(text, term, Prompt(printer))
    ELSE IF test_confirm.set \/ ~stderr_tty
    THEN /\ test_keys' = left
         /\ CheckAndDelete(test_confirm.value, term, Prompt(printer))
    ELSE \* cooked mode for input()
         /\ test_keys' = left
         /\ term' = IF original_term_settings # None
                    THEN original_term_settings ELSE term
         /\ ui' = Emit(Prompt(printer))
         /\ pc' = "input"
         /\ UNCHANGED <<selected, all_tries, delete_status, delete_mode,
                        marked_for_deletion, confirmation, resolved, tries>>

\* _handle_selection taking the first try whatever the cursor
HandleSelection_First(tr, cp) ==
    [type |-> "cd", path |-> tr[1].path, paths |-> <<>>, base_path |-> <<>>]
\* _handle_selection(tries[cursor_pos]) (lines 543-545)
HandleSelection(tr, cp) ==
    [type |-> "cd", path |-> tr[cp + 1].path, paths |-> <<>>, base_path |-> <<>>]

\* the test of line 226 never taking the delete branch
ConfirmsBatch_Never == FALSE
\* self.delete_mode and self.marked_for_deletion (line 226)
ConfirmsBatch == delete_mode /\ marked_for_deletion # <<>>

\* case "\r" (lines 225-237), with _handle_selection (lines 543-545) and
\* _handle_create_new (lines 547-557)
KeyEnter ==
    /\ ReadKey("\r")
    /\ IF ConfirmsBatch
       THEN ConfirmBatchDelete(KeysAfterRead)
       ELSE /\ test_keys' = KeysAfterRead
            /\ IF cursor_pos < Len(tries)
               THEN /\ selected' = HandleSelection(tries, cursor_pos)
                    /\ ExitLoop
               ELSE IF input_buffer # <<>>
               THEN /\ selected' = [type |-> "mkdir",
                                    path |-> BasePath \o <<"/">>
                                             \o WsToDash(<<"D", "-">> \o input_buffer),
                                    paths |-> <<>>, base_path |-> <<>>]
                    /\ ExitLoop
               ELSE /\ Continue
                    /\ UNCHANGED <<selected, term, ui>>
            /\ UNCHANGED <<all_tries, delete_status, delete_mode,
                           marked_for_deletion, confirmation, resolved>>
    /\ UNCHANGED <<untouched, input_buffer, input_cursor_pos, cursor_pos, raised>>

\* input() returns a line (lines 597-601), then lines 603-629
InputLine ==
    /\ pc = "input"
    /\ \E line \in InputLines :
          CheckAndDelete(Strip(line),
                         IF original_term_settings # None THEN "raw" ELSE term,
                         printer)
    /\ UNCHANGED <<untouched, test_keys, input_buffer, input_cursor_pos, cursor_pos,
                   raised>>

\* input() raises (EOFError, KeyboardInterrupt): the finally of lines 598-601
\* sets raw mode again, the exception leaves _main_loop and run()
InputRaises ==
    /\ pc = "input"
    /\ term' = TermAfterRun(IF original_term_settings # None THEN "raw" ELSE term,
                            original_term_settings, TRUE)
    /\ raised' = TRUE
    /\ ui' = Emit(RestoreTerminal(printer))
    /\ pc' = "done"
    /\ tries' = <<>>
    /\ UNCHANGED <<untouched, test_keys, input_buffer, input_cursor_pos, cursor_pos,
                   selected, all_tries, delete_status, delete_mode,
                   marked_for_deletion, confirmation, resolved>>

\* an exception raised in the loop (ranking, rendering, reading the
\* terminal) leaves _main_loop and run()
LoopRaises ==
    /\ pc \in {"loop", "read", "select"}
    /\ term' = TermAfterRun(term, original_term_settings, TRUE)
    /\ raised' = TRUE
    /\ ui' = Emit(RestoreTerminal(printer))
    /\ pc' = "done"
    /\ tries' = <<>>
    /\ UNCHANGED <<untouched, test_keys, input_buffer, input_cursor_pos, cursor_pos,
                   selected, all_tries, delete_status, delete_mode,
                   marked_for_deletion, confirmation, resolved>>

Next ==
    \/ RunStart
    \/ LoopTop
    \/ Winch
    \/ ReadCheckRedraw
    \/ SelectTimeout
    \/ KeyEnter
    \/ KeyUp
    \/ KeyDown
    \/ KeyLeftRight
    \/ KeyBackspace
    \/ KeyCtrlA
    \/ KeyCtrlE
    \/ KeyCtrlB
    \/ KeyCtrlF
    \/ KeyCtrlK
    \/ KeyCtrlW
    \/ KeyCtrlD
    \/ KeyCancel
    \/ KeyChar
    \/ KeyOther
    \/ InputLine
    \/ InputRaises
    \/ LoopRaises

Spec == Init /\ [][Next]_vars

(***************************************************************************)
(* The controller on a terminal whose height changes: an interactive run   *)
(* without scripted keys, every step of the controller and Resize.         *)
(***************************************************************************)
InitSize ==
    /\ Init
    /\ stdin_tty
    /\ stderr_tty
    /\ test_keys = 0
    /\ ~test_render_once
    /\ ~test_confirm.set
    /\ term = "cooked"
    /\ input_buffer = <<>>

NextSize == Next \/ Resize

SpecSize == InitSize /\ [][NextSize]_vars

TypeOK ==
    /\ pc \in {"start", "loop", "read", "select", "input", "done", "rank", "ranked", "shown", "ui"}
    /\ test_keys \in 0..MaxKeys
    /\ Len(input_buffer) <= MaxBuf

(***************************************************************************)
(* Ranking on its own: _get_tries over drawn scans and query buffers.      *)
(***************************************************************************)
\* longest query buffer drawn for the ranking
MaxQuery == 2
\* most entries of a drawn scan
MaxScan == 2

RankNames ==
    { <<"a", "b">>, <<"B", "-", "a">>, <<"b">>, <<"A", "a">>, <<DottedI, "a", "b">>,
      <<"2", "0", "2", "4", "-", "0", "1", "-", "0", "1", "-", "b">> }
\* hours since the last modification
RankHours == {1, 100}
RankChars == {"a", "B", "-"}

RankQueries == UNION {[1..n -> RankChars] : n \in 0..MaxQuery}

\* scans of distinct entries, in any order
RankScans ==
    UNION {{[i \in 1..n |-> TryDir(names[i], hours[i])] :
               names \in {f \in [1..n -> RankNames] :
                             \A i, j \in 1..n : i # j => f[i] # f[j]},
               hours \in [1..n -> RankHours]} : n \in 0..MaxScan}

InitRank ==
    /\ all_tries \in {[cached |-> TRUE, list |-> scan] : scan \in RankScans}
    /\ input_buffer \in RankQueries
    /\ input_cursor_pos = Len(input_buffer)
    /\ tries = <<>>
    /\ pc = "rank"
    /\ stdin_tty = FALSE
    /\ stderr_tty = FALSE
    /\ test_keys = 0
    /\ test_had_keys = FALSE
    /\ test_confirm = [set |-> FALSE, value |-> <<>>]
    /\ test_render_once = FALSE
    /\ cursor_pos = 0
    /\ scroll_offset = 0
    /\ selected = NoSelection
    /\ delete_status = None
    /\ delete_mode = FALSE
    /\ marked_for_deletion = <<>>
    /\ needs_redraw = FALSE
    /\ original_term_settings = None
    /\ confirmation = NotAsked
    /\ resolved = NotResolved
    /\ term = None
    /\ raised = FALSE
    /\ ui = UIDefault
    /\ term_lines = TermHeight

rank_frame == <<config, term_lines, test_keys, input_cursor_pos, cursor_pos, scroll_offset,
                selected, delete_status, delete_mode, marked_for_deletion,
                needs_redraw, original_term_settings, confirmation, resolved,
                term, raised, ui>>

\* tries = self._get_tries() (line 211)
Rank ==
    /\ pc = "rank"
    /\ tries' = GetTries(all_tries.list, input_buffer)
    /\ pc' = "ranked"
    /\ UNCHANGED <<rank_frame, all_tries, input_buffer>>

\* the query buffer is replaced between two rankings
Requery ==
    /\ pc = "ranked"
    /\ \E q \in RankQueries : input_buffer' = q
    /\ tries' = <<>>
    /\ pc' = "rank"
    /\ UNCHANGED <<rank_frame, all_tries>>

\* the lines of names with the printer's open line closed after each
RECURSIVE PrintLines(_, _)
PrintLines(u, lines) ==
    IF lines = <<>> THEN u
    ELSE PrintLines(ui_puts(ui_print(u, Head(lines)), <<>>), Tail(lines))

\* every scanned name is printed with its matches highlighted, as _render
\* prints a name (lines 461-465)
Highlight ==
    /\ pc = "ranked"
    /\ ui' = PrintLines(printer,
                        [i \in 1..Len(all_tries.list) |->
                            highlight_matches(all_tries.list[i].basename, input_buffer)])
    /\ pc' = "shown"
    /\ UNCHANGED <<config, term_lines, test_keys, input_cursor_pos, cursor_pos,
                   scroll_offset, selected, delete_status, delete_mode,
                   marked_for_deletion, needs_redraw, original_term_settings,
                   confirmation, resolved, term, raised, all_tries, input_buffer, tries>>

NextRank == Rank \/ Requery \/ Highlight

SpecRank == InitRank /\ [][NextRank]_vars

(***************************************************************************)
(* The printer on its own: print, puts, flush and cls in any order.        *)
(***************************************************************************)
\* most lines closed by puts in one frame
MaxLines == 2

\* what the model prints into a line, and what it closes a line with
PrintTexts == { <<"{", "b", "}">> }
PutsTexts == { <<>>, <<"x">> }

\* what the terminal shows when the first call is made: nothing, or what
\* was written to it before
UsedScreen == << <<"$">>, <<"$">>, <<"$">> >>

InitUI ==
    /\ stderr_tty \in BOOLEAN
    /\ ui \in {UIDefault} \cup (IF stderr_tty
                               THEN {[UIDefault EXCEPT !.screen = UsedScreen]}
                               ELSE {})
    /\ pc = "ui"
    /\ stdin_tty = stderr_tty
    /\ test_keys = 0
    /\ test_had_keys = FALSE
    /\ test_confirm = [set |-> FALSE, value |-> <<>>]
    /\ test_render_once = FALSE
    /\ input_buffer = <<>>
    /\ input_cursor_pos = 0
    /\ cursor_pos = 0
    /\ scroll_offset = 0
    /\ selected = NoSelection
    /\ all_tries = [cached |-> FALSE, list |-> <<>>]
    /\ delete_status = None
    /\ delete_mode = FALSE
    /\ marked_for_deletion = <<>>
    /\ needs_redraw = FALSE
    /\ original_term_settings = None
    /\ tries = <<>>
    /\ confirmation = NotAsked
    /\ resolved = NotResolved
    /\ term = None
    /\ raised = FALSE
    /\ term_lines = TermHeight

ui_frame == <<config, term_lines, test_keys, input_buffer, input_cursor_pos, cursor_pos,
              scroll_offset, selected, all_tries, delete_status, delete_mode,
              marked_for_deletion, needs_redraw, original_term_settings, tries,
              confirmation, resolved, term, raised, pc>>

\* UI.print(text), once on a line
UIPrint ==
    /\ pc = "ui"
    /\ ui.current_line = <<>>
    /\ \E text \in PrintTexts : ui' = ui_print(printer, text)
    /\ UNCHANGED ui_frame

\* UI.puts(text)
UIPuts ==
    /\ pc = "ui"
    /\ Len(ui.buffer) < MaxLines
    /\ \E text \in PutsTexts : ui' = ui_puts(printer, text)
    /\ UNCHANGED ui_frame

\* UI.flush() on sys.stderr
UIFlush ==
    /\ pc = "ui"
    /\ ui' = Emit(ui_flush(printer, stderr_tty))
    /\ UNCHANGED ui_frame

\* UI.cls()
UICls ==
    /\ pc = "ui"
    /\ ui' = Emit(ui_cls(printer))
    /\ UNCHANGED ui_frame

\* UI.disable_colors()
UIDisableColors ==
    /\ pc = "ui"
    /\ ui.expand_tokens
    /\ ui' = ui_disable_colors(ui)
    /\ UNCHANGED ui_frame

\* UI.force_colors()
UIForceColors ==
    /\ pc = "ui"
    /\ ~ui.force_colors
    /\ ui' = ui_force_colors(ui)
    /\ UNCHANGED ui_frame

NextUI ==
    \/ UIPrint
    \/ UIPuts
    \/ UIFlush
    \/ UICls
    \/ UIDisableColors
    \/ UIForceColors

SpecUI == InitUI /\ [][NextUI]_vars

(***************************************************************************)
(* Properties.                                                             *)
(***************************************************************************)
\* the components of a path
RECURSIVE Components(_)
Components(p) ==
    IF p = <<>> THEN <<>>
    ELSE IF Head(p) = "/" THEN Components(Tail(p))
    ELSE LET rest == Tail(p)
             more == Components(rest)
         IN IF rest # <<>> /\ Head(rest) # "/"
            THEN <<(<<Head(p)>> \o Head(more))>> \o Tail(more)
            ELSE <<(<<Head(p)>>)>> \o more

\* p lies strictly below base
StrictDescendant(p, base) ==
    LET cp == Components(p)
        cb == Components(base)
    IN Len(cp) > Len(cb) /\ SubSeq(cp, 1, Len(cb)) = cb

\* q is an in-order subsequence of t
IsSubsequence(q, t) ==
    \E f \in [1..Len(q) -> 1..Len(t)] :
        /\ \A i \in 1..Len(q) : t[f[i]] = q[i]
        /\ \A i, j \in 1..Len(q) : i < j => f[i] < f[j]

\* C1: a delete outcome exists only if every path resolved for the batch
\* lies strictly below the resolved base, and the outcome holds exactly those
\* paths; once any resolved path fails, no outcome is produced.
C1_Containment ==
    /\ selected.type = "delete" =>
          /\ resolved.done
          /\ Len(selected.paths) = Len(resolved.targets)
          /\ \A i \in 1..Len(selected.paths) :
                /\ selected.paths[i].path = resolved.targets[i]
                /\ StrictDescendant(selected.paths[i].path, selected.base_path)
    /\ (resolved.done /\ \E i \in 1..Len(resolved.targets) :
                            ~StrictDescendant(resolved.targets[i], resolved.base))
          => selected = NoSelection

\* a batch whose first item passed and whose second item failed
C1_Witness ==
    /\ resolved.done
    /\ Len(resolved.targets) = 2
    /\ StrictDescendant(resolved.targets[1], resolved.base)
    /\ ~StrictDescendant(resolved.targets[2], resolved.base)
    /\ selected = NoSelection
    /\ delete_status = "Error"

\* C2: when run() has entered raw mode, the terminal has the saved
\* attributes again once run() has ended, however it ended.
C2_TermRestored ==
    (pc = "done" /\ original_term_settings # None) => term = original_term_settings

\* run() was left by an exception after raw mode had been entered
C2_Witness ==
    /\ pc = "done"
    /\ raised
    /\ original_term_settings = "noecho"
    /\ term = "noecho"
    /\ delete_mode

\* C3: the step that reads the confirmation goes on to the containment
\* check only for the exact string YES; any other string gives no outcome,
\* empties the marked set, leaves delete mode, sets the status message and
\* continues the loop.
C3_ExactYes ==
    [][(~confirmation.read /\ confirmation'.read) =>
          IF confirmation'.text = YES
          THEN resolved'.done
          ELSE /\ ~resolved'.done
               /\ selected' = NoSelection
               /\ marked_for_deletion' = <<>>
               /\ ~delete_mode'
               /\ delete_status' = "Delete cancelled"
               /\ pc' = "loop"]_vars

\* "YES " was typed as keys and the deletion was called off
C3_Witness ==
    /\ confirmation.read
    /\ confirmation.text = <<"Y", "E", "S", " ">>
    /\ delete_status = "Delete cancelled"
    /\ pc = "loop"

\* C4: delete_mode is true exactly when the marked set is non-empty.
C4_MarkedIffDeleteMode == delete_mode <=> (marked_for_deletion # <<>>)

\* two tries are marked
C4_Witness == delete_mode /\ Len(marked_for_deletion) = 2 /\ pc = "read"

\* C5: 0 <= input_cursor_pos <= len(input_buffer).
C5_CursorInBuffer == 0 <= input_cursor_pos /\ input_cursor_pos <= Len(input_buffer)

\* the cursor stands inside a buffer of full length
C5_Witness ==
    /\ Len(input_buffer) = MaxBuf
    /\ 0 < input_cursor_pos
    /\ input_cursor_pos < Len(input_buffer)
    /\ pc = "read"

\* C6: after the head of an iteration (rank, clamp, render) cursor_pos lies
\* in [0, total_items - 1], and is 0 when there is no row.
C6_HighlightClamped ==
    pc \in {"read", "select"} =>
        LET total == Len(GetTries(all_tries.list, input_buffer))
                     + (IF input_buffer # <<>> THEN 1 ELSE 0)
        IN IF total = 0
           THEN cursor_pos = 0
           ELSE 0 <= cursor_pos /\ cursor_pos <= total - 1

\* nothing to show: no try and an empty query
C6_Witness ==
    /\ pc = "read"
    /\ all_tries.cached
    /\ all_tries.list = <<>>
    /\ input_buffer = <<>>
    /\ cursor_pos = 0

\* C7: the ranked list holds exactly the tries whose lowercased name has the
\* lowercased query as a subsequence, each once; the others score 0; with an
\* empty query every try is listed.
C7_FilterCorrect ==
    pc = "ranked" =>
        LET q == LowerStr(input_buffer)
            matching == {i \in 1..Len(all_tries.list) :
                            IsSubsequence(q, LowerStr(all_tries.list[i].basename))}
        IN /\ {tries[k].path : k \in 1..Len(tries)}
                = {all_tries.list[i].path : i \in matching}
           /\ Len(tries) = Cardinality(matching)
           /\ \A i \in 1..Len(all_tries.list) :
                 i \notin matching =>
                    calculate_score(all_tries.list[i].basename, q,
                                    all_tries.list[i].mtime) = 0
           /\ input_buffer = <<>> => Len(tries) = Len(all_tries.list)

\* one try of two is kept, by an upper-case query
C7_Witness ==
    /\ pc = "ranked"
    /\ Len(all_tries.list) = 2
    /\ Len(tries) = 1
    /\ input_buffer = <<"B", "a">>

\* C8: cancel with marks empties the marked set, leaves delete mode and
\* keeps the loop running without an outcome; cancel without marks ends the
\* loop with no selection.
C8_Cancel ==
    [][KeyCancel =>
          IF marked_for_deletion # <<>>
          THEN /\ marked_for_deletion' = <<>>
               /\ ~delete_mode'
               /\ pc' = "loop"
               /\ selected' = NoSelection
          ELSE /\ pc' = "done"
               /\ selected' = NoSelection
               /\ ~raised']_vars

\* a scripted run that a cancel ended: no outcome and no exception
C8_Witness ==
    /\ pc = "done"
    /\ test_had_keys
    /\ test_keys = 0
    /\ all_tries.cached
    /\ selected = NoSelection
    /\ ~raised
    /\ marked_for_deletion = <<>>

\* C9: toggle-mark on a row that is not a try changes nothing; on a try it
\* flips the membership of that try's path only; delete_mode afterwards is
\* true exactly when the marked set is non-empty.
C9_Toggle ==
    [][KeyCtrlD =>
          IF cursor_pos >= 0 /\ cursor_pos < Len(tries)
          THEN LET path == tries[cursor_pos + 1].path
               IN /\ InSeq(path, marked_for_deletion') = ~InSeq(path, marked_for_deletion)
                  /\ \A i \in 1..Len(all_tries.list) :
                        all_tries.list[i].path # path =>
                           (InSeq(all_tries.list[i].path, marked_for_deletion')
                              = InSeq(all_tries.list[i].path, marked_for_deletion))
                  /\ Len(marked_for_deletion') =
                        Len(marked_for_deletion)
                        + (IF InSeq(path, marked_for_deletion) THEN -1 ELSE 1)
                  /\ delete_mode' = (marked_for_deletion' # <<>>)
          ELSE /\ UNCHANGED <<marked_for_deletion, delete_mode, input_buffer,
                              input_cursor_pos, cursor_pos, selected>>
               /\ pc' = "loop"]_vars

\* all three tries are marked
C9_Witness == Len(marked_for_deletion) = 3 /\ delete_mode /\ pc = "loop"

C11_OutcomeListsAllMarked ==
    [][(selected.type # "delete" /\ selected'.type = "delete") =>
          /\ Len(selected'.paths) = Len(marked_for_deletion)
          /\ \A i \in 1..Len(marked_for_deletion) :
                \E j \in 1..Len(selected'.paths) :
                    BasePath \o <<"/">> \o selected'.paths[j].basename
                        = marked_for_deletion[i]]_vars

\* C12: outside delete mode, Enter on a row that is a try ends the loop with
\* a cd outcome for the try at cursor_pos of the list ranked for the current
\* query buffer.
C12_EnterSelects ==
    [][(KeyEnter /\ ~delete_mode /\ marked_for_deletion = <<>>
          /\ cursor_pos < Len(GetTries(all_tries.list, input_buffer))) =>
          /\ pc' = "done"
          /\ selected'.type = "cd"
          /\ selected'.path =
                GetTries(all_tries.list, input_buffer)[cursor_pos + 1].path
          /\ ~raised']_vars

\* the second try of the list ranked for the query "a" was chosen
C12_Witness ==
    /\ pc = "done"
    /\ input_buffer = <<"a">>
    /\ cursor_pos = 1
    /\ selected.type = "cd"
    /\ selected.path = BasePath \o <<"/">> \o <<"B", "-", "a">>

\* C13: outside delete mode, Enter on a row that is not a try ends the loop:
\* without an outcome when the query buffer is empty, with a mkdir outcome
\* otherwise.
C13_EnterOffList ==
    [][(KeyEnter /\ ~delete_mode /\ marked_for_deletion = <<>>
          /\ cursor_pos >= Len(tries)) =>
          /\ pc' = "done"
          /\ IF input_buffer = <<>>
             THEN selected' = NoSelection
             ELSE selected'.type = "mkdir"]_vars

\* the editing keys: insert, backspace, Ctrl-K, Ctrl-W, Ctrl-A/E/B/F
EditStep ==
    \/ KeyChar
    \/ KeyBackspace
    \/ KeyCtrlK
    \/ KeyCtrlW
    \/ KeyCtrlA
    \/ KeyCtrlE
    \/ KeyCtrlB
    \/ KeyCtrlF

\* C14, as stated: after any editing key the controller is not in delete
\* mode, whatever state it was in before.
C14_EditLeavesDeleteMode == [][EditStep => ~delete_mode']_vars

\* C14, amended: an editing key leaves the mode as it was; delete_mode and
\* the marked set are unchanged and the loop continues without an outcome.
C14_EditKeepsMode ==
    [][EditStep =>
          /\ delete_mode' = delete_mode
          /\ marked_for_deletion' = marked_for_deletion
          /\ selected' = selected
          /\ raised' = raised
          /\ pc' = "loop"]_vars

\* a try marked under the empty query is still marked after "a" was typed
C14_Witness ==
    /\ pc = "loop"
    /\ delete_mode
    /\ input_buffer = <<"a">>
    /\ input_cursor_pos = 1
    /\ Len(marked_for_deletion) = 1
    /\ ~IsSubsequence(<<"a">>, marked_for_deletion[1])

\* C15: when a step changes the length of the query buffer, cursor_pos is 0
\* right after it.
C15_LengthChangeResetsCursor ==
    [][Len(input_buffer') # Len(input_buffer) => cursor_pos' = 0]_vars

\* C16: a key that no case takes changes neither the query buffer, nor the
\* two cursors, nor the marked set, nor the mode, nor the outcome; nothing is
\* raised and the loop goes to its next iteration.
C16_UnknownKeyNoOp ==
    [][KeyOther =>
          /\ UNCHANGED <<input_buffer, input_cursor_pos, cursor_pos,
                         marked_for_deletion, delete_mode, selected, raised>>
          /\ pc' = "loop"]_vars

\* the first scripted key of a run over three tries changed nothing
C16_Witness ==
    /\ pc = "loop"
    /\ test_had_keys
    /\ test_keys = MaxKeys - 1
    /\ all_tries.list = ScanResult
    /\ input_buffer = <<"a", "-", "B">>
    /\ input_cursor_pos = 3
    /\ cursor_pos = 0
    /\ ~delete_mode
    /\ selected = NoSelection
    /\ ~raised

\* a key is read and handled
KeyStep ==
    \/ KeyEnter
    \/ KeyUp
    \/ KeyDown
    \/ KeyLeftRight
    \/ KeyCancel
    \/ KeyCtrlD
    \/ KeyOther
    \/ EditStep

\* C17, as stated: once the pending-redraw flag is set, no key is consumed
\* before the flag has been served, wherever in the loop the notification
\* arrived.
C17_NoKeyBeforeRepaint == [][needs_redraw => ~KeyStep]_vars

\* C17, amended: in a run without scripted keys, the check at the top of
\* _read_key's polling loop serves a pending flag (flag cleared, cached size
\* dropped, both frame buffers and the open line emptied, no key consumed,
\* back to the head of the loop), and the render that follows rewrites its
\* frame in full; a key is consumed with the flag pending only when select()
\* was already waiting as the notification arrived.
C17_ResizeServed ==
    [][/\ (needs_redraw /\ pc = "read" /\ ReadCheckRedraw) =>
             /\ ~needs_redraw'
             /\ ~ui'.size_cached
             /\ ui'.buffer = <<>>
             /\ ui'.last_buffer = <<>>
             /\ ui'.current_line = <<>>
             /\ pc' = "loop"
             /\ UNCHANGED <<test_keys, input_buffer, input_cursor_pos, cursor_pos,
                            marked_for_deletion, delete_mode, selected>>
       /\ (~ui.size_cached /\ stderr_tty /\ pc = "loop" /\ LoopTop) =>
             /\ ui'.size_cached
             /\ \E k \in 1..Len(ui'.out) : ui'.out[k] = MoveClear(0)
       /\ (needs_redraw /\ test_keys = 0 /\ ~test_had_keys /\ KeyStep) =>
             pc = "select"]_vars

\* a resize was served in delete mode: the size is to be read again and
\* nothing is left of the last frame
C17_Witness ==
    /\ pc = "loop"
    /\ all_tries.cached
    /\ delete_mode
    /\ ~needs_redraw
    /\ ~ui.size_cached
    /\ ui.last_buffer = <<>>
    /\ ui.out = <<ClearHome>>
    /\ stderr_tty

\* C18: on a terminal and without forced colour, flushing a frame that is
\* line for line the frame flushed before writes the cursor-home sequence
\* and nothing else.
C18_Idempotent ==
    [][(stderr_tty /\ ~ui.force_colors /\ Finalized(ui) = ui.last_buffer /\ UIFlush) =>
          ui'.out = <<Home>>]_vars

\* a frame of two lines, one of them with a token, was flushed a second time
C18_Witness ==
    /\ pc = "ui"
    /\ stderr_tty
    /\ ~ui.force_colors
    /\ ui.last_buffer = << <<"x">>, <<"{", "b", "}", "x">> >>
    /\ ui.out = <<Home>>

\* C19: on a terminal and without forced colour, flush rewrites row i
\* exactly when line i of the new frame differs from line i of the previous
\* one, a line missing from the shorter frame counting as empty; every write
\* of content comes right after the move to row i + 1 that clears the row.
C19_LineDiff ==
    [][(stderr_tty /\ ~ui.force_colors /\ UIFlush) =>
          LET frame == Finalized(ui)
              last == ui.last_buffer
              out == ui'.out
              n == Max(Len(frame), Len(last))
          IN /\ out # <<>> /\ out[1] = Home
             /\ \A i \in 0..n :
                   (\E k \in 1..Len(out) : out[k] = MoveClear(i))
                      <=> (LineAt(frame, i) # LineAt(last, i))
             /\ \A k \in 1..Len(out) :
                   /\ out[k].op = "move_clear" =>
                         /\ out[k].row \in 1..n
                         /\ \A h \in 1..Len(out) : out[h] = out[k] => h = k
                         /\ LineAt(frame, out[k].row - 1) # <<>> =>
                               /\ k < Len(out)
                               /\ out[k + 1] =
                                     Write(expand_tokens(ui, LineAt(frame, out[k].row - 1)))
                   /\ out[k].op = "write" =>
                         /\ k > 1
                         /\ \/ /\ out[k - 1].op = "move_clear"
                               /\ out[k].text =
                                     expand_tokens(ui, LineAt(frame, out[k - 1].row - 1))
                            \/ /\ k > 2
                               /\ out[k - 2].op = "move_clear"
                               /\ out[k - 1].op = "write"
                               /\ out[k].text = reset]_vars

\* the second row was rewritten and the first was left as it stood
C19_Witness ==
    /\ pc = "ui"
    /\ stderr_tty
    /\ ~ui.force_colors
    /\ Len(ui.last_buffer) = 2
    /\ ui.last_buffer[1] # <<>>
    /\ \E k \in 1..Len(ui.out) : ui.out[k] = MoveClear(1)
    /\ \A k \in 1..Len(ui.out) : ui.out[k] # MoveClear(0)

\* C20: UI.cls() leaves the current frame, the open line and the previous
\* frame empty; print and puts do not touch the previous frame; so the next
\* flush on a terminal, which finds the previous frame empty, rewrites every
\* non-empty line of the frame it is given.
C20_ClsResets ==
    [][/\ UICls =>
             /\ ui'.buffer = <<>>
             /\ ui'.current_line = <<>>
             /\ ui'.last_buffer = <<>>
       /\ (ui.last_buffer = <<>> /\ (UIPrint \/ UIPuts)) => ui'.last_buffer = <<>>
       /\ (ui.last_buffer = <<>> /\ stderr_tty /\ UIFlush) =>
             LET frame == Finalized(ui)
             IN \A i \in 1..Len(frame) :
                   frame[i] # <<>> =>
                      \E k \in 1..(Len(ui'.out) - 1) :
                         /\ ui'.out[k] = MoveClear(i - 1)
                         /\ ui'.out[k + 1] = Write(expand_tokens(ui, frame[i]))]_vars

\* the screen was cleared after colours had been forced and tokens disabled
C20_Witness ==
    /\ pc = "ui"
    /\ stderr_tty
    /\ ui.force_colors
    /\ ~ui.expand_tokens
    /\ ui.out = <<ClearHome>>
    /\ ui.buffer = <<>>
    /\ ui.current_line = <<>>
    /\ ui.last_buffer = <<>>

\* the place of a path in the scan
ScanIndex(path) ==
    CHOOSE i \in 1..Len(all_tries.list) : all_tries.list[i].path = path

\* C23: the ranked list is in non-increasing order of score, and tries of
\* equal score stand in the order of the scan.
C23_SortedStable ==
    pc = "ranked" =>
        \A i, j \in 1..Len(tries) :
            i < j =>
               /\ tries[i].score >= tries[j].score
               /\ tries[i].score = tries[j].score =>
                     ScanIndex(tries[i].path) < ScanIndex(tries[j].path)

\* two tries of equal score, ranked in the order of the scan
C23_Witness ==
    /\ pc = "ranked"
    /\ Len(tries) = 2
    /\ tries[1].score = tries[2].score
    /\ tries[1].basename # tries[2].basename

\* C24: with an empty query the score of a try is the date-prefix bonus
\* (2.0 or 0) plus 3.0 / sqrt(hours + 1) and nothing else.
C24_EmptyQueryScore ==
    (pc = "ranked" /\ input_buffer = <<>>) =>
        \A k \in 1..Len(tries) :
            tries[k].score =
                (IF HasDatePrefix(tries[k].basename) THEN 2 * Scale ELSE 0)
                + (3 * Scale * Scale) \div SqrtFix(tries[k].mtime + 1)

\* a dated and an undated try scored for the empty query
C24_Witness ==
    /\ pc = "ranked"
    /\ input_buffer = <<>>
    /\ Len(tries) = 2
    /\ HasDatePrefix(tries[1].basename)
    /\ ~HasDatePrefix(tries[2].basename)
    /\ tries[2].score > 0

\* C25, as stated: with an empty query, of any two tries the one modified
\* more recently stands before the other.
C25_RecentFirst ==
    (pc = "ranked" /\ input_buffer = <<>>) =>
        \A i, j \in 1..Len(tries) :
            tries[i].mtime < tries[j].mtime => i < j

\* C25, amended: with an empty query, of two tries that both have or both
\* lack the date prefix the one modified more recently stands before the
\* other.
C25_RecentFirstSameKind ==
    (pc = "ranked" /\ input_buffer = <<>>) =>
        \A i, j \in 1..Len(tries) :
            (/\ HasDatePrefix(tries[i].basename) = HasDatePrefix(tries[j].basename)
             /\ tries[i].mtime < tries[j].mtime) => i < j

\* the try scanned second is the more recent one and was ranked first
C25_Witness ==
    /\ pc = "ranked"
    /\ input_buffer = <<>>
    /\ Len(tries) = 2
    /\ ~HasDatePrefix(tries[1].basename)
    /\ ~HasDatePrefix(tries[2].basename)
    /\ tries[1].mtime < tries[2].mtime
    /\ tries[1].path = all_tries.list[2].path

\* C22: once the scan is cached it stays as it is whatever the directory
\* holds later, and each iteration ranks that cached scan; the cache is
\* dropped only by the step that produces a delete outcome, after the answer
\* YES and a containment check that every target passed.
C22_SessionCache ==
    [][/\ all_tries.cached =>
             \/ all_tries' = all_tries
             \/ /\ ~all_tries'.cached
                /\ selected'.type = "delete"
                /\ confirmation'.read
                /\ confirmation'.text = YES
                /\ resolved'.done
                /\ \A i \in 1..Len(resolved'.targets) :
                      StrictDescendant(resolved'.targets[i], resolved'.base)
       /\ (pc = "loop" /\ pc' = "read") =>
             tries' = GetTries(all_tries'.list, input_buffer')]_vars

\* a confirmation was answered with something other than YES and the scan
\* made before it is still the cached one
C22_Witness ==
    /\ pc = "loop"
    /\ delete_status = "Delete cancelled"
    /\ confirmation.read
    /\ confirmation.text # YES
    /\ all_tries.cached
    /\ all_tries.list = ScanResult

\* C28: the resize handler sets needs_redraw and writes nothing else: not
\* the printer's state, not the query or selection state, not the terminal.
C28_HandlerSetsFlagOnly ==
    [][Winch =>
          /\ needs_redraw'
          /\ UNCHANGED <<ui, input_buffer, input_cursor_pos, cursor_pos,
                         scroll_offset, selected, all_tries, tries, delete_status,
                         delete_mode, marked_for_deletion, confirmation, resolved,
                         test_keys, original_term_settings, term, raised, pc>>]_vars

\* the notification arrived while the delete prompt was waiting for its line
C28_Witness ==
    /\ pc = "input"
    /\ needs_redraw
    /\ delete_mode
    /\ ui.last_buffer = << <<"Y">> >>

\* C27: a size that is cached is the size every later query returns, whatever
\* height the terminal takes meanwhile; a query that finds nothing cached
\* reads the height of the moment; and the cache is dropped in one place
\* only, the step of _read_key that serves a pending resize flag.
C27_SizeCached ==
    [][/\ (ui.size_cached /\ ui'.size_cached) => ui'.height = ui.height
       /\ (~ui.size_cached /\ ui'.size_cached) => ui'.height = term_lines
       /\ (ui.size_cached /\ pc = "loop" /\ LoopTop) =>
             scroll_offset' = AdjustScroll(cursor_pos', scroll_offset, ui.height)
       /\ (ui.size_cached /\ ~ui'.size_cached) =>
             /\ needs_redraw
             /\ ~needs_redraw'
             /\ pc = "read"
             /\ pc' = "loop"
             /\ test_keys' = test_keys]_vars

\* the height was read again after a resize had been served, and the
\* terminal has changed once more while that height stays cached
C27_Witness ==
    /\ pc = "read"
    /\ needs_redraw
    /\ ui.size_cached
    /\ ui.height = TermHeight + 1
    /\ term_lines = TermHeight
    /\ ui.out = <<Home>>

\* C21, as stated: started with stdin or stderr not a terminal, no scripted
\* keys and render-once off, run() ends at once with no selection, without
\* raw mode and without a key read, and what it writes to the stream holds
\* the error message.
C21_ErrorReported ==
    [][(/\ pc = "start"
        /\ ~stdin_tty \/ ~stderr_tty
        /\ test_keys = 0
        /\ ~test_render_once
        /\ RunStart) =>
          /\ pc' = "done"
          /\ selected' = NoSelection
          /\ original_term_settings' = None
          /\ term' = term
          /\ \E k \in 1..Len(ui'.out) :
                /\ ui'.out[k].op = "write"
                /\ IsSubsequence(<<"E", "r", "r", "o", "r">>, ui'.out[k].text)]_vars

\* C21, what the code does: the same step ends the run with no selection,
\* without raw mode and without a key read, but the message is only put in
\* the frame buffer, which _restore_terminal then empties: the stream gets
\* the two clear sequences and no text.
C21_ErrorBufferedOnly ==
    [][(/\ pc = "start"
        /\ ~stdin_tty \/ ~stderr_tty
        /\ test_keys = 0
        /\ ~test_render_once
        /\ RunStart) =>
          /\ pc' = "done"
          /\ selected' = NoSelection
          /\ original_term_settings' = None
          /\ term' = term
          /\ ui'.out = <<ClearHome, ClearHome>>
          /\ ui'.buffer = <<>>
          /\ ui'.current_line = <<>>]_vars

\* the lines of a frame, each without its tokens, one "\n" between two lines
RECURSIVE UnstyledText(_)
UnstyledText(frame) ==
    IF frame = <<>> THEN <<>>
    ELSE SubTokens(Head(frame), 1, FALSE)
         \o (IF Len(frame) > 1 THEN <<"\n">> \o UnstyledText(Tail(frame)) ELSE <<>>)

\* the text of the writes of a step, one after the other
RECURSIVE WrittenText(_)
WrittenText(out) ==
    IF out = <<>> THEN <<>> ELSE Head(out).text \o WrittenText(Tail(out))

\* C26: a flush to a stream that is not a terminal, colour not forced,
\* writes text only: the lines of the composed frame once each, tokens
\* removed, joined by newlines and ended by a newline; no home, move or
\* clear sequence; the frame buffer, the open line and the previous frame
\* are empty afterwards.
C26_PlainFlush ==
    [][(~stderr_tty /\ ~ui.force_colors /\ UIFlush) =>
          LET frame == IF ui.current_line # <<>>
                       THEN Append(ui.buffer, ui.current_line)
                       ELSE ui.buffer
              text == WrittenText(ui'.out)
          IN /\ \A k \in 1..Len(ui'.out) : ui'.out[k].op = "write"
             /\ text \in {UnstyledText(frame), UnstyledText(frame) \o <<"\n">>}
             /\ text # <<>>
             /\ text[Len(text)] = "\n"
             /\ ui'.buffer = <<>>
             /\ ui'.current_line = <<>>
             /\ ui'.last_buffer = <<>>]_vars

\* a frame of two lines went to a file as "x\nx" and a newline
C26_Witness ==
    /\ pc = "ui"
    /\ ~stderr_tty
    /\ ~ui.force_colors
    /\ ui.out = <<Write(<<"x", "\n", "x">>), Write(<<"\n">>)>>
    /\ ui.buffer = <<>>
    /\ ui.last_buffer = <<>>

\* what a renderer that clears the screen and draws every line of a frame
\* leaves in the rows
Repainted(frame) ==
    TrimRows([i \in 1..Len(frame) |->
                IF frame[i] = <<>> THEN <<>> ELSE SubTokens(frame[i], 1, TRUE) \o reset])

\* the screen shows the frame flushed last, rows below it blank
ShowsLastFrame(u) == u.screen = Repainted(u.last_buffer)

RECURSIVE Cells(_)
Cells(line) ==
    IF line = <<>> THEN <<>>
    ELSE IF /\ Len(line) >= 8
            /\ SubSeq(line, 1, 3) = <<"{", "b", "}">>
            /\ SubSeq(line, 5, 8) = <<"{", "/", "b", "}">>
    THEN <<[char |-> line[4], marked |-> TRUE]>> \o Cells(SubSeq(line, 9, Len(line)))
    ELSE <<[char |-> line[1], marked |-> FALSE]>> \o Cells(Tail(line))

\* the first position from i on where text has the character c, whatever
\* the case, 0 when there is none
FirstAt(text, c, i) ==
    IF \E p \in i..Len(text) : Lower(text[p]) = Lower(c)
    THEN CHOOSE p \in i..Len(text) :
            /\ Lower(text[p]) = Lower(c)
            /\ \A r \in i..(p - 1) : Lower(text[r]) # Lower(c)
    ELSE 0

\* the greedy leftmost positions of query in text, from character k of the
\* query and position i of the text on
RECURSIVE GreedyPositions(_, _, _, _)
GreedyPositions(text, query, k, i) ==
    IF k > Len(query) \/ FirstAt(text, query[k], i) = 0 THEN {}
    ELSE {FirstAt(text, query[k], i)}
         \cup GreedyPositions(text, query, k + 1, FirstAt(text, query[k], i) + 1)

\* C29: each highlighted name is the name with marks added; the marked
\* positions are the greedy leftmost positions of the query; their number is
\* the length of the longest prefix of the query that is a subsequence of
\* the name, case ignored, and never more than the query's length; with an
\* empty query the name is printed as it is.
C29_GreedyMarks ==
    pc = "shown" =>
       \A i \in 1..Len(all_tries.list) :
          LET name == all_tries.list[i].basename
              cells == Cells(ui.buffer[i])
              marks == {p \in 1..Len(cells) : cells[p].marked}
          IN /\ [p \in 1..Len(cells) |-> cells[p].char] = name
             /\ marks = GreedyPositions(name, input_buffer, 1, 1)
             /\ Cardinality(marks) <= Len(input_buffer)
             /\ \A n \in 0..Len(input_buffer) :
                   IsSubsequence(LowerStr(SubSeq(input_buffer, 1, n)), LowerStr(name))
                      <=> n <= Cardinality(marks)
             /\ input_buffer = <<>> => ui.buffer[i] = name

\* the marks are the greedy leftmost positions on the names whose lowercased
\* form is as long as the name
C29_GreedyMarksSameLength ==
    pc = "shown" =>
       \A i \in 1..Len(all_tries.list) :
          LET name == all_tries.list[i].basename
              cells == Cells(ui.buffer[i])
              marks == {p \in 1..Len(cells) : cells[p].marked}
          IN Len(LowerStr(name)) = Len(name) =>
                /\ [p \in 1..Len(cells) |-> cells[p].char] = name
                /\ marks = GreedyPositions(name, input_buffer, 1, 1)
                /\ Cardinality(marks) <= Len(input_buffer)
                /\ input_buffer = <<>> => ui.buffer[i] = name

\* the query "Ba": both characters marked in "B-a", and in "b" the one
\* character that the first character of the query matches
C29_Witness ==
    /\ pc = "shown"
    /\ input_buffer = <<"B", "a">>
    /\ ui.buffer = << <<"{", "b", "}", "B", "{", "/", "b", "}", "-",
                        "{", "b", "}", "a", "{", "/", "b", "}">>,
                      <<"{", "b", "}", "b", "{", "/", "b", "}">> >>

\* C31: with a non-empty marked set, Enter and the confirmation that follows
\* it end in a delete outcome or in no outcome, never in a cd or mkdir
\* outcome, whatever row is highlighted; a run ends after them only with a
\* delete outcome or by an exception.
C31_ConfirmNeverSelects ==
    [][(/\ marked_for_deletion # <<>>
        /\ pc \in {"read", "select", "input"}
        /\ KeyEnter \/ InputLine \/ InputRaises) =>
          /\ selected'.type \in {"none", "delete"}
          /\ pc' = "done" => (selected'.type = "delete" \/ raised')]_vars

\* Enter on the create-new row below two matches, one of them marked, gave
\* a delete outcome of that one try
C31_Witness ==
    /\ pc = "done"
    /\ selected.type = "delete"
    /\ Len(selected.paths) = 1
    /\ input_buffer = <<"a">>
    /\ cursor_pos = 2

\* C32, as stated: in a run started with scripted keys nothing is read from
\* the terminal (no wait in select(), no input()), and once the keys are
\* used up each iteration either leaves delete mode or ends the run, delete
\* mode not being entered again.
C32_ScriptedTerminates ==
    [][test_had_keys =>
          /\ pc' \notin {"select", "input"}
          /\ (test_keys = 0 /\ pc = "read" /\ pc' # "read") =>
                \/ pc' = "done"
                \/ delete_mode /\ ~delete_mode' /\ pc' = "loop"
          /\ (test_keys = 0 /\ ~delete_mode) => ~delete_mode']_vars

\* C32, what the code does: the reads of _read_key behave as stated, but
\* Enter as the last scripted key, with tries marked, no test_confirm and
\* stderr a terminal, hands the confirmation to input() on the terminal.
C32_ScriptedExceptConfirm ==
    [][test_had_keys =>
          /\ pc' # "select"
          /\ pc' = "input" =>
                \/ pc = "input"
                \/ /\ pc = "read"
                   /\ test_keys = 1
                   /\ test_keys' = 0
                   /\ ConfirmsBatch
                   /\ ~test_confirm.set
                   /\ stderr_tty
          /\ (test_keys = 0 /\ pc = "read" /\ pc' # "read") =>
                \/ pc' = "done"
                \/ delete_mode /\ ~delete_mode' /\ pc' = "loop"
          /\ (test_keys = 0 /\ ~delete_mode) => ~delete_mode']_vars

\* C33, as stated: cursor_pos is never negative, in any state.
C33_CursorNeverNegative == cursor_pos >= 0

\* C33, what the code does: cursor_pos is negative only between a Down key
\* handled with no row on the screen, which sets it to -1, and the clamp at
\* the head of the next iteration; it is never below -1.
C33_NegativeOnlyAfterDown ==
    /\ cursor_pos >= -1
    /\ cursor_pos = -1 =>
          /\ pc \in {"loop", "done"}
          /\ input_buffer = <<>>
          /\ all_tries.list = <<>>

\* C34: after every render scroll_offset is not negative and the highlighted
\* row lies in the window of max_visible rows that starts at scroll_offset;
\* when there are rows, it is one of the rows drawn.
C34_ScrollWindow ==
    pc \in {"read", "select"} =>
        LET max_visible == IF ui.height - 8 > 3 THEN ui.height - 8 ELSE 3
            total_items == Len(tries) + (IF input_buffer # <<>> THEN 1 ELSE 0)
            visible_end == IF scroll_offset + max_visible < total_items
                           THEN scroll_offset + max_visible ELSE total_items
        IN /\ scroll_offset >= 0
           /\ scroll_offset <= cursor_pos
           /\ cursor_pos < scroll_offset + max_visible
           /\ total_items > 0 => cursor_pos < visible_end

\* the fourth row is highlighted and the window has moved down by one
C34_Witness ==
    /\ pc = "read"
    /\ cursor_pos = 3
    /\ scroll_offset = 1
    /\ Len(tries) = 3
    /\ delete_mode

ScorePositions(name, query) ==
    {p + 1 : p \in ScoreWalk(LowerStr(name), LowerStr(query), 0, 0, -1, 0, {}).positions}

\* the positions, counted from 1, that a highlighted line marks in its name
MarkedPositions(line) ==
    {p \in 1..Len(Cells(line)) : Cells(line)[p].marked}

\* C36: for every name and query such that the query is a subsequence of
\* the lowercased name, the positions that highlight marks on the name are
\* the positions at which the walk of the score matched the query.
C36_SameWalks ==
    pc = "shown" =>
       \A i \in 1..Len(all_tries.list) :
          LET name == all_tries.list[i].basename
          IN IsSubsequence(LowerStr(input_buffer), LowerStr(name)) =>
                MarkedPositions(ui.buffer[i]) = ScorePositions(name, input_buffer)

\* the two walks agree on the names whose lowercased form is as long as
\* the name
C36_SameWalksSameLength ==
    pc = "shown" =>
       \A i \in 1..Len(all_tries.list) :
          LET name == all_tries.list[i].basename
          IN (/\ Len(LowerStr(name)) = Len(name)
              /\ IsSubsequence(LowerStr(input_buffer), LowerStr(name))) =>
                MarkedPositions(ui.buffer[i]) = ScorePositions(name, input_buffer)

\* the frame as lines ended by a newline each: a line is written with its
\* tokens expanded and the reset after it when tokens are expanded, as it is
\* otherwise, and a blank line is the newline alone
RECURSIVE ForcedText(_, _)
ForcedText(u, frame) ==
    IF frame = <<>> THEN <<>>
    ELSE (IF Head(frame) = <<>> THEN <<>>
          ELSE IF u.expand_tokens THEN SubTokens(Head(frame), 1, TRUE) \o reset
          ELSE Head(frame))
         \o <<"\n">> \o ForcedText(u, Tail(frame))

\* the newlines of a text
Newlines(text) == Cardinality({k \in 1..Len(text) : text[k] = "\n"})

\* the lines of a frame that are not blank
NonBlank(frame) == SelectSeq(frame, LAMBDA line : line # <<>>)

\* C37, as stated: with colour forced, a flush to a stream that is not a
\* terminal writes one line ended by a newline for every line of the
\* composed frame, blank lines included, in the order of the frame, and no
\* home, move or clear sequence.
C37_ForcedLinePerLine ==
    [][(~stderr_tty /\ ui.force_colors /\ UIFlush) =>
          LET frame == IF ui.current_line # <<>>
                       THEN Append(ui.buffer, ui.current_line)
                       ELSE ui.buffer
              text == WrittenText(ui'.out)
          IN /\ \A k \in 1..Len(ui'.out) : ui'.out[k].op = "write"
             /\ Newlines(text) = Len(frame)
             /\ text = ForcedText(ui, frame)]_vars

\* C37, what the code does: the lines of the frame that are not blank are
\* written in order, a newline after each; for a blank line nothing is
\* written, the newline neither; no home, move or clear sequence.
C37_ForcedSkipsBlank ==
    [][(~stderr_tty /\ ui.force_colors /\ UIFlush) =>
          LET frame == IF ui.current_line # <<>>
                       THEN Append(ui.buffer, ui.current_line)
                       ELSE ui.buffer
              text == WrittenText(ui'.out)
          IN /\ \A k \in 1..Len(ui'.out) : ui'.out[k].op = "write"
             /\ Newlines(text) = Len(NonBlank(frame))
             /\ text = ForcedText(ui, NonBlank(frame))]_vars

====
